---- MODULE Spec2Model ----
(***************************************************************************)
(* dbmask: dependency-aware, consistency-preserving export pipeline.       *)
(*                                                                         *)
(*   schema     SortTablesByDependency / topologicalSort                   *)
(*   fktracker  Tracker (RecordValue, HasValue, normalizeValue, ...)       *)
(*   anonymiser Anonymiser.AnonymiseRow and its consistency map            *)
(*   exporter   the Dump Writer that ties them together                    *)
(*                                                                         *)
(* Each component has its own specification over the shared variables; a   *)
(* specification leaves the variables of the other components idle.        *)
(***************************************************************************)
EXTENDS Integers, Sequences, FiniteSets, TLC

VARIABLES
    tables,     \* schema: the []TableInfo handed to SortTablesByDependency (names)
    fks,        \* schema: what driver.GetForeignKeys() returns
    fksErr,     \* schema: TRUE when driver.GetForeignKeys() fails
    sorted,     \* schema: the slice SortTablesByDependency returned
    sortErr,    \* schema: TRUE when SortTablesByDependency returned an error
    sortPc,     \* schema: "input" before the call, "done" after it, "idle" when unused
    exportedKeys,   \* fktracker: Tracker.exportedKeys, "table.column" -> set of values
    recorded,       \* fktracker: history of the RecordValue calls that returned, <<table, column, value>>
    mu,             \* fktracker: Tracker.mu, who holds the write lock and who holds read locks
    callers,        \* fktracker: the goroutines inside RecordValue or HasValue and where each one is
    config,         \* config.Config.Configuration: table -> *TableConfig
    consistencyMap, \* anonymiser: Anonymiser.consistencyMap, "column:original" -> substitute
    calls,          \* anonymiser: history of the AnonymiseRow calls that returned
    workers,        \* anonymiser: the goroutines inside AnonymiseRow and where each one is
    fkIntegrity,    \* config.Config.ForeignKeyIntegrity: TRUE, FALSE or unset
    batchSize,      \* exporter: Options.BatchSize as given to New
    warnings,       \* runExport: the warnings written to standard error
    exportPc,       \* runExport and exporter: where the run is
    cur,            \* exporter: index in the table list of the table being exported
    streamErr,      \* database: StreamRows has returned an error
    pending,        \* exporter: rows of the running StreamRows query not yet handed to the callback
    output,         \* exporter: what has been written to the dump, in order
    stats,          \* exporter: Stats
    retainLoad,     \* config: a retain node being loaded, saved and loaded again
    stream          \* database: a StreamRows call, the rows left, the batch, the callbacks made

sortVars == <<tables, fks, fksErr, sorted, sortErr, sortPc>>

trackerVars == <<exportedKeys, recorded, mu, callers>>

anonVars == <<config, consistencyMap, calls, workers>>

exportVars == <<fkIntegrity, batchSize, warnings, exportPc, cur, streamErr, pending, output, stats>>

configVars == <<retainLoad>>

streamVars == <<stream>>

vars == <<tables, fks, fksErr, sorted, sortErr, sortPc, exportedKeys, recorded, mu, callers,
          config, consistencyMap, calls, workers,
          fkIntegrity, batchSize, warnings, exportPc, cur, streamErr, pending, output, stats,
          retainLoad, stream>>

(***************************************************************************)
(* Generic helpers                                                         *)
(***************************************************************************)
Range(s) == {s[i] : i \in DOMAIN s}

\* All sequences of distinct elements of S that enumerate S.
Perms(S) == {p \in [1..Cardinality(S) -> S] : \A i, j \in 1..Cardinality(S) : p[i] = p[j] => i = j}

\* All sequences over S of length at most n.
SeqsUpTo(S, n) == UNION {[1..k -> S] : k \in 0..n}

\* All sequences of distinct elements of S of length at most n.
DistinctSeqsUpTo(S, n) == {s \in SeqsUpTo(S, n) : \A i, j \in DOMAIN s : s[i] = s[j] => i = j}

\* 1-based position of x in s (0 when absent).
IndexOf(s, x) == IF x \in Range(s) THEN CHOOSE i \in DOMAIN s : s[i] = x /\ \A j \in 1..(i - 1) : s[j] # x ELSE 0

(***************************************************************************)
(* Bounds                                                                  *)
(***************************************************************************)
MaxTables == 3
MaxFks == 3
MaxRecords == 2
MaxCalls == 2
MaxBatchSize == 2

(***************************************************************************)
(* schema: SortTablesByDependency                                          *)
(***************************************************************************)
TableNames == {"users", "orders", "items"}

\* database.ForeignKey
ForeignKey(t, c, rt, rc) == [Table |-> t, Column |-> c, ReferencedTable |-> rt, ReferencedColumn |-> rc]

\* The foreign keys the driver may report: any table to any table, itself included.
FkUniverse == {ForeignKey(t, "ref_id", rt, "id") : t \in TableNames, rt \in TableNames}

\* A variant of the loop that keeps self-references.
RECURSIVE AddForeignKeysKeepSelf(_, _, _, _)
AddForeignKeysKeepSelf(fkList, i, tableSet, dependencies) ==
    IF i > Len(fkList) THEN dependencies
    ELSE LET fk == fkList[i]
         IN  IF fk.Table \in tableSet /\ fk.ReferencedTable \in tableSet
             THEN AddForeignKeysKeepSelf(fkList, i + 1, tableSet,
                                 [dependencies EXCEPT ![fk.Table] = Append(@, fk.ReferencedTable)])
             ELSE AddForeignKeysKeepSelf(fkList, i + 1, tableSet, dependencies)

\* The loop "for _, fk := range fks" that fills dependencies[fk.Table].
RECURSIVE AddForeignKeys(_, _, _, _)
AddForeignKeys(fkList, i, tableSet, dependencies) ==
    IF i > Len(fkList) THEN dependencies
    ELSE LET fk == fkList[i]
         IN  IF fk.Table \in tableSet /\ fk.ReferencedTable \in tableSet /\ fk.Table # fk.ReferencedTable
             THEN AddForeignKeys(fkList, i + 1, tableSet,
                                 [dependencies EXCEPT ![fk.Table] = Append(@, fk.ReferencedTable)])
             ELSE AddForeignKeys(fkList, i + 1, tableSet, dependencies)

\* dependencies: table -> the tables it depends on, one entry per foreign key kept.
BuildDependencies(tbls, fkList) ==
    AddForeignKeys(fkList, 1, Range(tbls), [t \in Range(tbls) |-> <<>>])

\* A variant that counts the in-degree on the referenced table.
RECURSIVE AddDependentsReversed(_, _, _, _)
AddDependentsReversed(table, deps, i, acc) ==
    IF i > Len(deps) THEN acc
    ELSE AddDependentsReversed(table, deps, i + 1,
            [dependents |-> [acc.dependents EXCEPT ![table] = Append(@, deps[i])],
             inDegree   |-> [acc.inDegree EXCEPT ![deps[i]] = @ + 1]])

\* The inner loop "for _, dep := range deps" of the reverse adjacency build.
RECURSIVE AddDependents(_, _, _, _)
AddDependents(table, deps, i, acc) ==
    IF i > Len(deps) THEN acc
    ELSE AddDependents(table, deps, i + 1,
            [dependents |-> [acc.dependents EXCEPT ![deps[i]] = Append(@, table)],
             inDegree   |-> [acc.inDegree EXCEPT ![table] = @ + 1]])

\* The outer loop "for table, deps := range dependencies": Go visits the keys of
\* a map in an unspecified order, given here as the sequence mapOrder.
RECURSIVE BuildDependents(_, _, _, _)
BuildDependents(mapOrder, i, dependencies, acc) ==
    IF i > Len(mapOrder) THEN acc
    ELSE BuildDependents(mapOrder, i + 1, dependencies,
            AddDependents(mapOrder[i], dependencies[mapOrder[i]], 1, acc))

\* The loop "for _, dependent := range dependents[current]".
RECURSIVE ReduceInDegree(_, _, _)
ReduceInDegree(deps, i, acc) ==
    IF i > Len(deps) THEN acc
    ELSE LET d   == deps[i]
             deg == acc.inDegree[d] - 1
         IN  ReduceInDegree(deps, i + 1,
                [inDegree |-> [acc.inDegree EXCEPT ![d] = deg],
                 queue    |-> IF deg = 0 THEN Append(acc.queue, d) ELSE acc.queue])

\* The loop "for len(queue) > 0".
RECURSIVE ProcessQueue(_, _, _, _)
ProcessQueue(queue, out, inDegree, dependents) ==
    IF Len(queue) = 0 THEN out
    ELSE LET current == Head(queue)
             acc     == ReduceInDegree(dependents[current], 1, [inDegree |-> inDegree, queue |-> Tail(queue)])
         IN  ProcessQueue(acc.queue, Append(out, current), acc.inDegree, dependents)

\* A variant that returns what Kahn's algorithm placed and nothing else.
AppendRemainingDropped(tbls, out) == out

\* A variant that appends the unplaced tables in reverse input order.
RECURSIVE Reverse(_)
Reverse(s) == IF s = <<>> THEN <<>> ELSE Append(Reverse(Tail(s)), Head(s))

AppendRemainingReversed(tbls, out) ==
    IF Len(out) # Len(tbls)
    THEN out \o Reverse(SelectSeq(tbls, LAMBDA t : t \notin Range(out)))
    ELSE out

\* "Check for cycles": the tables Kahn's algorithm did not place are appended.
AppendRemaining(tbls, out) ==
    IF Len(out) # Len(tbls)
    THEN out \o SelectSeq(tbls, LAMBDA t : t \notin Range(out))
    ELSE out

topologicalSort(tbls, dependencies, mapOrder) ==
    LET built == BuildDependents(mapOrder, 1, dependencies,
                    [dependents |-> [t \in Range(tbls) |-> <<>>],
                     inDegree   |-> [t \in Range(tbls) |-> 0]])
        queue == SelectSeq(tbls, LAMBDA t : built.inDegree[t] = 0)
    IN  AppendRemaining(tbls, ProcessQueue(queue, <<>>, built.inDegree, built.dependents))

SortTablesByDependency(tbls, fkList, mapOrder) ==
    topologicalSort(tbls, BuildDependencies(tbls, fkList), mapOrder)

InitSort ==
    /\ tables \in DistinctSeqsUpTo(TableNames, MaxTables)
    /\ fks \in SeqsUpTo(FkUniverse, MaxFks)
    /\ fksErr \in BOOLEAN
    /\ sorted = <<>>
    /\ sortErr = FALSE
    /\ sortPc = "input"

\* Analyser.SortTablesByDependency(tables) when GetForeignKeys succeeds.
Sort ==
    /\ sortPc = "input"
    /\ ~fksErr
    /\ \E mapOrder \in Perms(Range(tables)) :
          sorted' = SortTablesByDependency(tables, fks, mapOrder)
    /\ sortErr' = FALSE
    /\ sortPc' = "done"
    /\ UNCHANGED <<tables, fks, fksErr>>

\* Analyser.SortTablesByDependency(tables) when GetForeignKeys fails: (nil, err).
SortFails ==
    /\ sortPc = "input"
    /\ fksErr
    /\ sorted' = <<>>
    /\ sortErr' = TRUE
    /\ sortPc' = "done"
    /\ UNCHANGED <<tables, fks, fksErr>>

IdleSort ==
    /\ tables = <<>>
    /\ fks = <<>>
    /\ fksErr = FALSE
    /\ sorted = <<>>
    /\ sortErr = FALSE
    /\ sortPc = "idle"

NextSort ==
    \/ Sort /\ UNCHANGED <<configVars, streamVars, trackerVars, anonVars, exportVars>>
    \/ SortFails /\ UNCHANGED <<configVars, streamVars, trackerVars, anonVars, exportVars>>

(***************************************************************************)
(* fktracker: Go values                                                    *)
(*                                                                         *)
(* An integer value is [type, e, r] and holds the number e * 2^63 + r with *)
(* r small, so that the numbers around the ends of the 64-bit ranges are   *)
(* exact.  A float value is [type, m] and holds m halves; float32 holds    *)
(* the whole numbers only, float64 every m.  Text is [type, s].            *)
(***************************************************************************)
Nil == [type |-> "nil"]

SignedTypes == {"int", "int8", "int16", "int32", "int64"}
UnsignedTypes == {"uint", "uint8", "uint16", "uint32", "uint64"}
IntTypes == SignedTypes \cup UnsignedTypes

\* int and uint are 64 bits wide (amd64, arm64).
Wide(type) == type \in {"int", "int64", "uint", "uint64"}

IntValue(type, e, r) == [type |-> type, e |-> e, r |-> r]

\* The number e * 2^63 + r is a value of the integer type.
InRange(type, e, r) ==
    IF type \in UnsignedTypes
    THEN IF Wide(type)
         THEN (e = 0 /\ r >= 0) \/ e = 1 \/ (e = 2 /\ r < 0)
         ELSE e = 0 /\ r >= 0 /\ r <= (CASE type = "uint8" -> 255 [] type = "uint16" -> 65535 [] OTHER -> 2147483647)
    ELSE IF Wide(type)
         THEN (e = -1 /\ r >= 0) \/ e = 0 \/ (e = 1 /\ r < 0)
         ELSE e = 0 /\ (CASE type = "int8" -> r >= -128 /\ r <= 127
                          [] type = "int16" -> r >= -32768 /\ r <= 32767
                          [] OTHER -> r >= -2147483647 /\ r <= 2147483647)

\* The numbers the values are drawn from: -1, 7, 200, 2^63 and 2^64 - 1.
IntNumbers == {<<0, -1>>, <<0, 7>>, <<0, 200>>, <<1, 0>>, <<2, -1>>}

IntValues == {IntValue(type, n[1], n[2]) : <<type, n>> \in
                {<<type, n>> \in IntTypes \X IntNumbers : InRange(type, n[1], n[2])}}

FloatValues == {[type |-> "float32", m |-> 2], [type |-> "float64", m |-> 2], [type |-> "float64", m |-> 3]}

TextValues == {[type |-> "bytes", s |-> "ab"], [type |-> "string", s |-> "ab"], [type |-> "string", s |-> "7"]}

OtherValues == {[type |-> "bool", b |-> TRUE]}

GoValues == IntValues \cup FloatValues \cup TextValues \cup OtherValues \cup {Nil}

\* The conversion int64(v) of an unsigned 64-bit value: the same bits, read as
\* two's complement, so 2^63 and above wrap around to the negative numbers.
Int64OfUint64(e, r) ==
    IF (e = 1 /\ r >= 0) \/ e = 2
    THEN IntValue("int64", e - 2, r)
    ELSE IntValue("int64", e, r)

\* A normalizeValue without the case for uint32.
normalizeValueNoUint32(value) ==
    CASE value.type \in {"int", "int8", "int16", "int32", "int64"} -> IntValue("int64", value.e, value.r)
      [] value.type \in {"uint8", "uint16"} -> IntValue("int64", value.e, value.r)
      [] value.type \in {"uint", "uint64"} -> Int64OfUint64(value.e, value.r)
      [] value.type = "float32" -> [type |-> "float64", m |-> value.m]
      [] value.type = "bytes" -> [type |-> "string", s |-> value.s]
      [] OTHER -> value

normalizeValue(value) ==
    CASE value.type \in {"int", "int8", "int16", "int32", "int64"} -> IntValue("int64", value.e, value.r)
      [] value.type \in {"uint8", "uint16", "uint32"} -> IntValue("int64", value.e, value.r)
      [] value.type \in {"uint", "uint64"} -> Int64OfUint64(value.e, value.r)
      [] value.type = "float32" -> [type |-> "float64", m |-> value.m]
      [] value.type = "bytes" -> [type |-> "string", s |-> value.s]
      [] OTHER -> value

(***************************************************************************)
(* fktracker: Tracker                                                      *)
(***************************************************************************)
\* The names the tracker is called with.  A quoted identifier may hold a dot,
\* so the table users.uuid with its column id is not the table users with its
\* column uuid.id.
TrackerTables == {"users", "users.uuid"}
TrackerColumns == {"id", "uuid.id"}

\* A key that leaves the table out.
makeKeyColumnOnly(table, column) == column

makeKey(table, column) == table \o "." \o column

\* NewTracker()
NewTracker == <<>>

\* A RecordValue without the early return for nil.
RecordValueInKeepNil(keys, table, column, value) ==
    LET key == table \o "." \o column
        old == IF key \in DOMAIN keys THEN keys[key] ELSE {}
    IN  [k \in DOMAIN keys \cup {key} |-> IF k = key THEN old \cup {value} ELSE keys[k]]

\* A RecordValue that records nothing.
RecordValueInNothing(keys, table, column, value) == keys

\* The exportedKeys map after RecordValue(table, column, value).
RecordValueIn(keys, table, column, value) ==
    IF value = Nil THEN keys
    ELSE LET key == makeKey(table, column)
             old == IF key \in DOMAIN keys THEN keys[key] ELSE {}
         IN  [k \in DOMAIN keys \cup {key} |->
                 IF k = key THEN old \cup {normalizeValue(value)} ELSE keys[k]]

\* HasValue(table, column, value) on the exportedKeys map keys.
HasValueIn(keys, table, column, value) ==
    IF value = Nil THEN TRUE
    ELSE LET key == makeKey(table, column)
         IN  IF key \notin DOMAIN keys THEN FALSE
             ELSE normalizeValue(value) \in keys[key]

HasValue(table, column, value) == HasValueIn(exportedKeys, table, column, value)

\* GetExportedValues(table, column): the values in no particular order (nil when none).
GetExportedValues(table, column) ==
    LET key == makeKey(table, column)
    IN  IF key \notin DOMAIN exportedKeys THEN {} ELSE exportedKeys[key]

\* GetExportedCount(table, column)
GetExportedCount(table, column) ==
    LET key == makeKey(table, column)
    IN  IF key \notin DOMAIN exportedKeys THEN 0 ELSE Cardinality(exportedKeys[key])

Callers == {"g1", "g2"}

\* An unlocked sync.RWMutex, a goroutine that is in no call.
Unlocked == [writer |-> "", readers |-> {}]
IdleCaller == [pc |-> "idle"]

InitTracker ==
    /\ exportedKeys = NewTracker
    /\ recorded = {}
    /\ mu = Unlocked
    /\ callers = [g \in Callers |-> IdleCaller]

IdleTracker == InitTracker

\* t.RecordValue(table, column, value)
RecordValue(table, column, value) ==
    /\ Cardinality(recorded) < MaxRecords
    /\ exportedKeys' = RecordValueIn(exportedKeys, table, column, value)
    /\ recorded' = recorded \cup {<<table, column, value>>}
    /\ UNCHANGED <<mu, callers>>

NextTracker ==
    \E table \in TrackerTables, column \in TrackerColumns, value \in GoValues :
        RecordValue(table, column, value) /\ UNCHANGED <<configVars, streamVars, sortVars, anonVars, exportVars>>

(***************************************************************************)
(* fktracker: RecordValue and HasValue called from several goroutines.     *)
(* RecordValue takes mu.Lock() and holds it to its return; HasValue takes  *)
(* mu.RLock() and holds it to its return.                                  *)
(***************************************************************************)
\* The keys and values the goroutines work with.
ConcColumns == {"id", "uuid"}
ConcValues == {IntValue("int32", 0, 7), IntValue("int64", 0, 7), IntValue("int64", 0, 200), Nil}

\* The calls to RecordValue that returned or are under way.
RecordCalls == Cardinality(recorded) + Cardinality({g \in Callers : callers[g].pc \in {"lock", "store"}})

\* A Lock that never waits.
CanLockAlways(g) == TRUE

\* mu.Lock() returns when nobody holds the lock; mu.RLock() when no writer holds it.
CanLock(g) == mu.writer = "" /\ mu.readers = {}

CanRLock(g) == mu.writer = ""

\* RecordValue up to mu.Lock(): nil returns at once.
CallRecordValue(g, table, column, value) ==
    /\ callers[g].pc = "idle"
    /\ RecordCalls < MaxRecords
    /\ IF value = Nil
       THEN /\ recorded' = recorded \cup {<<table, column, value>>}
            /\ callers' = [callers EXCEPT ![g] = IdleCaller]
       ELSE /\ callers' = [callers EXCEPT ![g] =
                  [pc |-> "lock", table |-> table, column |-> column, value |-> value]]
            /\ UNCHANGED recorded
    /\ UNCHANGED <<exportedKeys, mu>>

\* mu.Lock() returns; the set of the key is looked up (an empty one is made if there is none).
LockAndFind(g) ==
    /\ callers[g].pc = "lock"
    /\ CanLock(g)
    /\ mu' = [mu EXCEPT !.writer = g]
    /\ LET key == makeKey(callers[g].table, callers[g].column)
           me  == callers[g]
       IN  callers' = [callers EXCEPT ![g] =
               [pc |-> "store", table |-> me.table, column |-> me.column, value |-> me.value,
                found |-> IF key \in DOMAIN exportedKeys THEN exportedKeys[key] ELSE {}]]
    /\ UNCHANGED <<exportedKeys, recorded>>

\* The normalised value is put into the set, the deferred mu.Unlock() runs, RecordValue returns.
StoreAndUnlock(g) ==
    /\ callers[g].pc = "store"
    /\ LET me  == callers[g]
           key == makeKey(me.table, me.column)
       IN  /\ exportedKeys' = [k \in DOMAIN exportedKeys \cup {key} |->
                                  IF k = key THEN me.found \cup {normalizeValue(me.value)} ELSE exportedKeys[k]]
           /\ recorded' = recorded \cup {<<me.table, me.column, me.value>>}
    /\ mu' = [mu EXCEPT !.writer = IF @ = g THEN "" ELSE @]
    /\ callers' = [callers EXCEPT ![g] = IdleCaller]

\* HasValue up to mu.RLock(): nil returns true at once.  sure tells whether a
\* RecordValue of a value normalising the same had returned before the call.
CallHasValue(g, table, column, value) ==
    /\ callers[g].pc \in {"idle", "answered"}
    /\ IF value = Nil
       THEN callers' = [callers EXCEPT ![g] =
               [pc |-> "answered", table |-> table, column |-> column, value |-> value, sure |-> TRUE, result |-> TRUE]]
       ELSE callers' = [callers EXCEPT ![g] =
               [pc |-> "rlock", table |-> table, column |-> column, value |-> value,
                sure |-> \E rec \in recorded : /\ rec[1] = table /\ rec[2] = column /\ rec[3] # Nil
                                               /\ normalizeValue(rec[3]) = normalizeValue(value)]]
    /\ UNCHANGED <<exportedKeys, recorded, mu>>

\* mu.RLock() returns.
RLock(g) ==
    /\ callers[g].pc = "rlock"
    /\ CanRLock(g)
    /\ mu' = [mu EXCEPT !.readers = @ \cup {g}]
    /\ callers' = [callers EXCEPT ![g].pc = "read"]
    /\ UNCHANGED <<exportedKeys, recorded>>

\* The lookup, the deferred mu.RUnlock(), the return of HasValue.
ReadAndRUnlock(g) ==
    /\ callers[g].pc = "read"
    /\ LET me == callers[g]
       IN  callers' = [callers EXCEPT ![g] =
               [pc |-> "answered", table |-> me.table, column |-> me.column, value |-> me.value, sure |-> me.sure,
                result |-> HasValueIn(exportedKeys, me.table, me.column, me.value)]]
    /\ mu' = [mu EXCEPT !.readers = @ \ {g}]
    /\ UNCHANGED <<exportedKeys, recorded>>

\* The goroutine is done with the answer of HasValue.
Forget(g) ==
    /\ callers[g].pc = "answered"
    /\ callers' = [callers EXCEPT ![g] = IdleCaller]
    /\ UNCHANGED <<exportedKeys, recorded, mu>>

NextTrackerConc ==
    \/ \E g \in Callers, column \in ConcColumns, value \in ConcValues :
          CallRecordValue(g, "users", column, value) /\ UNCHANGED <<configVars, streamVars, sortVars, anonVars, exportVars>>
    \/ \E g \in Callers : LockAndFind(g) /\ UNCHANGED <<configVars, streamVars, sortVars, anonVars, exportVars>>
    \/ \E g \in Callers : StoreAndUnlock(g) /\ UNCHANGED <<configVars, streamVars, sortVars, anonVars, exportVars>>
    \/ \E g \in Callers, column \in ConcColumns, value \in ConcValues :
          CallHasValue(g, "users", column, value) /\ UNCHANGED <<configVars, streamVars, sortVars, anonVars, exportVars>>
    \/ \E g \in Callers : RLock(g) /\ UNCHANGED <<configVars, streamVars, sortVars, anonVars, exportVars>>
    \/ \E g \in Callers : ReadAndRUnlock(g) /\ UNCHANGED <<configVars, streamVars, sortVars, anonVars, exportVars>>
    \/ \E g \in Callers : Forget(g) /\ UNCHANGED <<configVars, streamVars, sortVars, anonVars, exportVars>>

(***************************************************************************)
(* config: table configuration                                             *)
(***************************************************************************)
\* A nil *TableConfig, a nil Columns map, an unset *bool.
NilConfig == [nil |-> TRUE]
NilColumns == [nil |-> TRUE]
Unset == <<>>

\* config.RetainConfig: Count 0 and an empty ColumnName mean no restriction.
RetainConfig(count, columnName, afterDate) == [Count |-> count, ColumnName |-> columnName, AfterDate |-> afterDate]

NoRetain == RetainConfig(0, "", 0)

\* config.TableConfig
TableConfig(truncate, foreignKeyIntegrity, retain, columns) ==
    [Truncate |-> truncate, ForeignKeyIntegrity |-> foreignKeyIntegrity, Retain |-> retain, Columns |-> columns]

\* Config.GetTableConfig(tableName) on the Configuration map cfg.
GetTableConfig(cfg, tableName) ==
    IF tableName \in DOMAIN cfg THEN cfg[tableName] ELSE NilConfig

(***************************************************************************)
(* anonymiser: faker templates                                             *)
(***************************************************************************)
Str(s) == [type |-> "string", s |-> s]

\* The characters \w matches.
WordChars ==
    {"a", "b", "c", "d", "e", "f", "g", "h", "i", "j", "k", "l", "m", "n", "o", "p", "q", "r", "s", "t",
     "u", "v", "w", "x", "y", "z", "A", "B", "C", "D", "E", "F", "G", "H", "I", "J", "K", "L", "M", "N",
     "O", "P", "Q", "R", "S", "T", "U", "V", "W", "X", "Y", "Z", "0", "1", "2", "3", "4", "5", "6", "7",
     "8", "9", "_"}

\* The end of the longest run of word characters of s that starts at i (i - 1 when none).
RECURSIVE WordRunEnd(_, _)
WordRunEnd(s, i) ==
    IF i <= Len(s) /\ SubSeq(s, i, i) \in WordChars THEN WordRunEnd(s, i + 1) ELSE i - 1

\* fakerPattern, \{\{faker\.(\w+)\}\}, matches s at position i.
FakerMatchAt(s, i) ==
    /\ i + 7 <= Len(s)
    /\ SubSeq(s, i, i + 7) = "{{faker."
    /\ LET j == WordRunEnd(s, i + 8)
       IN  /\ j >= i + 8
           /\ j + 2 <= Len(s)
           /\ SubSeq(s, j + 1, j + 2) = "}}"

\* fakerPattern.FindStringSubmatch(rule): <<funcName>> of the leftmost match, <<>> for nil.
FindStringSubmatch(rule) ==
    LET at == {i \in 1..Len(rule) : FakerMatchAt(rule, i)}
    IN  IF at = {} THEN <<>>
        ELSE LET i == CHOOSE k \in at : \A l \in at : k <= l
             IN  <<SubSeq(rule, i + 8, WordRunEnd(rule, i + 8))>>

\* The keys of fakerFunctions.
fakerFunctions ==
    {"name", "firstName", "lastName", "email", "phone", "address", "city", "country", "company",
     "uuid", "username", "password", "ipv4", "date", "text", "number"}

\* What a generator may return: gofakeit draws at random, so two draws may differ.
FakeStrings == {"fake-1", "fake-2"}

\* A GenerateFakeValue that finds a generator under every name.
GenerateFakeValueAny(funcName, fresh) == fresh

\* GenerateFakeValue(funcName), fresh being what the generator draws.
GenerateFakeValue(funcName, fresh) ==
    IF funcName \in fakerFunctions THEN fresh ELSE ""

(***************************************************************************)
(* anonymiser: AnonymiseRow                                                *)
(***************************************************************************)
\* originalStr: the original value when it is a string, "" for nil and every other type.
OriginalStr(originalVal) ==
    IF originalVal # Nil /\ originalVal.type = "string" THEN originalVal.s ELSE ""

ConsistencyKey(col, originalStr) == col \o ":" \o originalStr

\* An iteration that takes the rules "null" and "" for static values.
AnonymiseColumnNullAsStatic(col, rule, result, cmap, fresh) ==
    IF col \notin DOMAIN result THEN [result |-> result, cmap |-> cmap]
    ELSE LET originalStr == OriginalStr(result[col])
             matches     == FindStringSubmatch(rule)
         IN  IF matches # <<>>
             THEN LET key == ConsistencyKey(col, originalStr)
                  IN  IF key \in DOMAIN cmap
                      THEN [result |-> [result EXCEPT ![col] = Str(cmap[key])], cmap |-> cmap]
                      ELSE LET newVal == GenerateFakeValue(matches[1], fresh)
                           IN  [result |-> [result EXCEPT ![col] = Str(newVal)],
                                cmap   |-> IF originalStr # ""
                                           THEN [k \in DOMAIN cmap \cup {key} |->
                                                    IF k = key THEN newVal ELSE cmap[k]]
                                           ELSE cmap]
             ELSE [result |-> [result EXCEPT ![col] = Str(rule)], cmap |-> cmap]

\* An iteration that stores the substitute whatever the original value is.
AnonymiseColumnAlwaysStores(col, rule, result, cmap, fresh) ==
    IF col \notin DOMAIN result THEN [result |-> result, cmap |-> cmap]
    ELSE IF rule = "null" \/ rule = "" THEN [result |-> [result EXCEPT ![col] = Nil], cmap |-> cmap]
    ELSE LET matches == FindStringSubmatch(rule)
             key     == ConsistencyKey(col, OriginalStr(result[col]))
         IN  IF matches # <<>>
             THEN IF key \in DOMAIN cmap
                  THEN [result |-> [result EXCEPT ![col] = Str(cmap[key])], cmap |-> cmap]
                  ELSE LET newVal == GenerateFakeValue(matches[1], fresh)
                       IN  [result |-> [result EXCEPT ![col] = Str(newVal)],
                            cmap   |-> [k \in DOMAIN cmap \cup {key} |-> IF k = key THEN newVal ELSE cmap[k]]]
             ELSE [result |-> [result EXCEPT ![col] = Str(rule)], cmap |-> cmap]

\* One iteration of "for col, rule := range tableConfig.Columns", run alone:
\* the row being built and the consistency map after it.
AnonymiseColumn(col, rule, result, cmap, fresh) ==
    IF col \notin DOMAIN result THEN [result |-> result, cmap |-> cmap]
    ELSE IF rule = "null" \/ rule = "" THEN [result |-> [result EXCEPT ![col] = Nil], cmap |-> cmap]
    ELSE LET originalStr == OriginalStr(result[col])
             matches     == FindStringSubmatch(rule)
         IN  IF matches # <<>>
             THEN LET key == ConsistencyKey(col, originalStr)
                  IN  IF key \in DOMAIN cmap
                      THEN [result |-> [result EXCEPT ![col] = Str(cmap[key])], cmap |-> cmap]
                      ELSE LET newVal == GenerateFakeValue(matches[1], fresh)
                           IN  [result |-> [result EXCEPT ![col] = Str(newVal)],
                                cmap   |-> IF originalStr # ""
                                           THEN [k \in DOMAIN cmap \cup {key} |->
                                                    IF k = key THEN newVal ELSE cmap[k]]
                                           ELSE cmap]
             ELSE [result |-> [result EXCEPT ![col] = Str(rule)], cmap |-> cmap]

\* The whole loop over tableConfig.Columns, visited in the order mapOrder;
\* draws[col] is what the generator returns if it is called for col.
RECURSIVE AnonymiseColumns(_, _, _, _, _)
AnonymiseColumns(mapOrder, i, columns, acc, draws) ==
    IF i > Len(mapOrder) THEN acc
    ELSE AnonymiseColumns(mapOrder, i + 1, columns,
            AnonymiseColumn(mapOrder[i], columns[mapOrder[i]], acc.result, acc.cmap,
                            IF mapOrder[i] \in DOMAIN draws THEN draws[mapOrder[i]] ELSE ""),
            draws)

\* AnonymiseRow returns at once, and returns the map it was given.
ReturnsInput(cfg, tableName) ==
    LET tableConfig == GetTableConfig(cfg, tableName)
    IN  tableConfig = NilConfig \/ tableConfig.Columns = NilColumns

\* An AnonymiseRow whose loop writes into the map it was given.
AnonymiseRowInPlace(cfg, cmap, tableName, row, mapOrder, draws) ==
    IF ReturnsInput(cfg, tableName)
    THEN [result |-> row, cmap |-> cmap, same |-> TRUE, input |-> row]
    ELSE LET out == AnonymiseColumns(mapOrder, 1, GetTableConfig(cfg, tableName).Columns,
                                     [result |-> row, cmap |-> cmap], draws)
         IN  [result |-> out.result, cmap |-> out.cmap, same |-> TRUE, input |-> out.result]

\* Anonymiser.AnonymiseRow(tableName, row) run without interruption: the map
\* returned, the consistency map, whether the map returned is the very map
\* given, and what the map given holds afterwards.
AnonymiseRowIn(cfg, cmap, tableName, row, mapOrder, draws) ==
    IF ReturnsInput(cfg, tableName)
    THEN [result |-> row, cmap |-> cmap, same |-> TRUE, input |-> row]
    ELSE LET out == AnonymiseColumns(mapOrder, 1, GetTableConfig(cfg, tableName).Columns,
                                     [result |-> row, cmap |-> cmap], draws)
         IN  [result |-> out.result, cmap |-> out.cmap, same |-> FALSE, input |-> row]

\* The column map AnonymiseRow ranges over (empty when it returns at once).
RuledColumns(cfg, tableName) ==
    LET tableConfig == GetTableConfig(cfg, tableName)
    IN  IF tableConfig = NilConfig \/ tableConfig.Columns = NilColumns THEN <<>> ELSE tableConfig.Columns

(***************************************************************************)
(* anonymiser: ValidateRules                                               *)
(***************************************************************************)
\* A nil Configuration map; it ranges and reads as an empty one.
NilConfiguration == <<>>

UnknownFakerMessage(funcName, tableName, col) ==
    "unknown faker function '" \o funcName \o "' for " \o tableName \o "." \o col

\* A validation that reports every faker template, registered or not.
RECURSIVE ValidateColumnsEveryTemplate(_, _, _, _, _)
ValidateColumnsEveryTemplate(tableName, columns, columnOrder, i, errors) ==
    IF i > Len(columnOrder) THEN errors
    ELSE LET col     == columnOrder[i]
             matches == FindStringSubmatch(columns[col])
         IN  ValidateColumnsEveryTemplate(tableName, columns, columnOrder, i + 1,
                IF matches # <<>>
                THEN Append(errors, UnknownFakerMessage(matches[1], tableName, col))
                ELSE errors)

\* "for col, rule := range tableConfig.Columns", visited in the order columnOrder.
RECURSIVE ValidateColumns(_, _, _, _, _)
ValidateColumns(tableName, columns, columnOrder, i, errors) ==
    IF i > Len(columnOrder) THEN errors
    ELSE LET col     == columnOrder[i]
             matches == FindStringSubmatch(columns[col])
         IN  ValidateColumns(tableName, columns, columnOrder, i + 1,
                IF matches # <<>> /\ matches[1] \notin fakerFunctions
                THEN Append(errors, UnknownFakerMessage(matches[1], tableName, col))
                ELSE errors)

\* "for tableName, tableConfig := range a.config.Configuration", visited in the order tableOrder.
RECURSIVE ValidateTables(_, _, _, _, _)
ValidateTables(cfg, tableOrder, columnOrders, i, errors) ==
    IF i > Len(tableOrder) THEN errors
    ELSE LET tableName   == tableOrder[i]
             tableConfig == cfg[tableName]
         IN  ValidateTables(cfg, tableOrder, columnOrders, i + 1,
                IF tableConfig = NilConfig \/ tableConfig.Columns = NilColumns
                THEN errors
                ELSE ValidateColumns(tableName, tableConfig.Columns, columnOrders[tableName], 1, errors))

\* The orders in which the Columns maps of the tables in T can be ranged over.
RECURSIVE ColumnOrders(_, _)
ColumnOrders(cfg, T) ==
    IF T = {} THEN {<<>>}
    ELSE LET t == CHOOSE x \in T : TRUE
         IN  {[x \in T |-> IF x = t THEN p ELSE rest[x]] :
                 p \in Perms(DOMAIN RuledColumns(cfg, t)), rest \in ColumnOrders(cfg, T \ {t})}

\* Anonymiser.ValidateRules(): the messages, in the order the maps are ranged over.
ValidateRules(cfg, tableOrder, columnOrders) ==
    IF cfg = NilConfiguration THEN <<>>
    ELSE ValidateTables(cfg, tableOrder, columnOrders, 1, <<>>)

\* The columns of the table whose rule is a faker template: the ones a generator may run for.
TemplateColumns(cfg, tableName) ==
    {c \in DOMAIN RuledColumns(cfg, tableName) : FindStringSubmatch(RuledColumns(cfg, tableName)[c]) # <<>>}

\* The configuration the anonymiser is exercised with.
AnonConfig ==
    [t \in {"users", "orders", "logs", "items"} |->
        CASE t = "users"  -> TableConfig(FALSE, Unset, NoRetain,
                                [c \in {"phone", "name", "notes"} |->
                                    CASE c = "phone" -> "{{faker.phone}}" [] c = "name" -> "redacted" [] OTHER -> "null"])
          [] t = "orders" -> TableConfig(FALSE, Unset, NoRetain,
                                [c \in {"phone", "ref", "memo"} |->
                                    CASE c = "phone" -> "{{faker.phone}}" [] c = "ref" -> "{{faker.nope}}" [] OTHER -> ""])
          [] t = "items"  -> TableConfig(FALSE, Unset, NoRetain, [c \in {"ref"} |-> "{{faker.email}}"])
          [] OTHER        -> TableConfig(TRUE, Unset, NoRetain, NilColumns)]

\* The tables AnonymiseRow is called for: the configured ones and one without configuration.
AnonTables == {"users", "orders", "logs", "items", "misc"}

\* Original values of the phone column: a string, the empty string, NULL, an integer.
PhoneValues == {Str("555-0100"), Str(""), Nil, IntValue("int64", 0, 5550100)}

\* Rows that carry some of the ruled columns of each table and lack the others.
AnonRows ==
    {[c \in {"id", "phone", "name", "ref"} |->
        CASE c = "id" -> IntValue("int64", 0, 1) [] c = "phone" -> p [] c = "name" -> Str("Ann") [] OTHER -> Str("r-1")]
        : p \in PhoneValues}
    \cup {[c \in {"id", "phone", "notes", "memo"} |->
        CASE c = "id" -> IntValue("int64", 0, 2) [] c = "phone" -> p [] c = "notes" -> Str("vip") [] OTHER -> Str("gift")]
        : p \in PhoneValues}

\* The rows the concurrent workers are given.
WorkerRows == {[c \in {"id", "phone"} |-> IF c = "id" THEN IntValue("int64", 0, 2) ELSE p] : p \in PhoneValues}

Workers == {"w1", "w2"}

IdleWorker == [pc |-> "idle"]

\* anonymiser.New(cfg)
InitAnon ==
    /\ config = AnonConfig
    /\ consistencyMap = <<>>
    /\ calls = {}
    /\ workers = [w \in Workers |-> IdleWorker]

IdleAnon ==
    /\ config = <<>>
    /\ consistencyMap = <<>>
    /\ calls = {}
    /\ workers = [w \in Workers |-> IdleWorker]

\* a.AnonymiseRow(tableName, row), called by one goroutine at a time.
AnonymiseRow(tableName, row) ==
    /\ Cardinality(calls) < MaxCalls
    /\ LET columns == RuledColumns(config, tableName)
       IN  \E mapOrder \in Perms(DOMAIN columns), draws \in [TemplateColumns(config, tableName) -> FakeStrings] :
              LET out == AnonymiseRowIn(config, consistencyMap, tableName, row, mapOrder, draws)
              IN  /\ consistencyMap' = out.cmap
                  /\ calls' = calls \cup {[table |-> tableName, row |-> row, result |-> out.result,
                                             same |-> out.same, input |-> out.input]}
    /\ UNCHANGED <<config, workers>>

NextAnon ==
    \E tableName \in AnonTables, row \in AnonRows :
        AnonymiseRow(tableName, row) /\ UNCHANGED <<configVars, streamVars, sortVars, trackerVars, exportVars>>

(***************************************************************************)
(* anonymiser: AnonymiseRow called from several goroutines.  A step is what *)
(* a goroutine does between two points where another one may run: the map  *)
(* is read under RLock and written under Lock, and nothing holds a lock     *)
(* from the read to the write.                                              *)
(***************************************************************************)
InFlight == Cardinality({w \in Workers : workers[w].pc # "idle"})

\* Entry of AnonymiseRow up to the loop over the columns.
WorkerCall(w, tableName, row) ==
    /\ workers[w].pc = "idle"
    /\ Cardinality(calls) + InFlight < MaxCalls
    /\ LET columns == RuledColumns(config, tableName)
       IN  IF ReturnsInput(config, tableName)
           THEN /\ calls' = calls \cup {[table |-> tableName, row |-> row, result |-> row,
                                         same |-> TRUE, input |-> row]}
                /\ UNCHANGED workers
           ELSE /\ \E mapOrder \in Perms(DOMAIN columns) :
                      workers' = [workers EXCEPT ![w] =
                          [pc |-> "loop", table |-> tableName, row |-> row, todo |-> mapOrder, result |-> row]]
                /\ UNCHANGED calls
    /\ UNCHANGED <<config, consistencyMap>>

\* One column of the loop, up to and including the read of the map under RLock;
\* with no column left, the return.
WorkerLoop(w) ==
    /\ workers[w].pc = "loop"
    /\ LET me == workers[w]
       IN  IF me.todo = <<>>
           THEN /\ calls' = calls \cup {[table |-> me.table, row |-> me.row, result |-> me.result,
                                         same |-> FALSE, input |-> me.row]}
                /\ workers' = [workers EXCEPT ![w] = IdleWorker]
           ELSE LET col  == Head(me.todo)
                    rule == RuledColumns(config, me.table)[col]
                    key  == ConsistencyKey(col, OriginalStr(me.result[col]))
                IN  /\ UNCHANGED calls
                    /\ IF col \in DOMAIN me.result /\ ~(rule = "null" \/ rule = "")
                          /\ FindStringSubmatch(rule) # <<>> /\ key \notin DOMAIN consistencyMap
                       THEN workers' = [workers EXCEPT ![w].pc = "generate"]
                       ELSE workers' = [workers EXCEPT ![w].todo = Tail(me.todo),
                                ![w].result = AnonymiseColumn(col, rule, me.result, consistencyMap, "").result]
    /\ UNCHANGED <<config, consistencyMap>>

\* After a miss: GenerateFakeValue, the write of the map under Lock, result[col] = newVal.
WorkerGenerate(w) ==
    /\ workers[w].pc = "generate"
    /\ LET me  == workers[w]
           col == Head(me.todo)
       IN  \E fresh \in FakeStrings :
              LET out == AnonymiseColumn(col, RuledColumns(config, me.table)[col], me.result, <<>>, fresh)
                  key == ConsistencyKey(col, OriginalStr(me.result[col]))
              IN  /\ consistencyMap' =
                        IF key \in DOMAIN out.cmap
                        THEN [k \in DOMAIN consistencyMap \cup {key} |->
                                 IF k = key THEN out.cmap[key] ELSE consistencyMap[k]]
                        ELSE consistencyMap
                  /\ workers' = [workers EXCEPT ![w].pc = "loop", ![w].todo = Tail(me.todo),
                                                 ![w].result = out.result]
    /\ UNCHANGED <<config, calls>>

NextAnonConc ==
    \/ \E w \in Workers, tableName \in {"users", "orders", "logs"}, row \in WorkerRows :
          WorkerCall(w, tableName, row) /\ UNCHANGED <<configVars, streamVars, sortVars, trackerVars, exportVars>>
    \/ \E w \in Workers : WorkerLoop(w) /\ UNCHANGED <<configVars, streamVars, sortVars, trackerVars, exportVars>>
    \/ \E w \in Workers : WorkerGenerate(w) /\ UNCHANGED <<configVars, streamVars, sortVars, trackerVars, exportVars>>

(***************************************************************************)
(* config: foreign-key integrity, truncation, retention                    *)
(***************************************************************************)
\* A *bool that is set.
Set(b) == <<b>>

\* A configuration whose global setting, when set, overrides the table's.
ShouldEnforceFKIntegrityGlobalFirst(cfg, global, tableName) ==
    LET tc == GetTableConfig(cfg, tableName)
    IN  IF global # Unset THEN global[1]
        ELSE IF tc # NilConfig /\ tc.ForeignKeyIntegrity # Unset THEN tc.ForeignKeyIntegrity[1]
        ELSE FALSE

\* Config.ShouldEnforceFKIntegrity(tableName): the table's setting overrides the global one.
ShouldEnforceFKIntegrity(cfg, global, tableName) ==
    LET tc == GetTableConfig(cfg, tableName)
    IN  IF tc # NilConfig /\ tc.ForeignKeyIntegrity # Unset THEN tc.ForeignKeyIntegrity[1]
        ELSE IF global # Unset THEN global[1]
        ELSE FALSE

\* An anonymiser for which no table is truncated.
ShouldTruncateNever(cfg, tableName) == FALSE

\* Anonymiser.ShouldTruncate(tableName)
ShouldTruncate(cfg, tableName) ==
    LET tableConfig == GetTableConfig(cfg, tableName)
    IN  IF tableConfig = NilConfig THEN FALSE ELSE tableConfig.Truncate

\* Anonymiser.GetRetainConfig(tableName)
GetRetainConfig(cfg, tableName) ==
    LET tableConfig == GetTableConfig(cfg, tableName)
    IN  IF tableConfig = NilConfig THEN NoRetain ELSE tableConfig.Retain

(***************************************************************************)
(* database: the rows of the source and Driver.StreamRows                  *)
(***************************************************************************)
Int64(n) == IntValue("int64", 0, n)
Int32(n) == IntValue("int32", 0, n)
Day(n) == [type |-> "time", day |-> n]

\* The source database.  users 3 is the parent of order 2, order 2 the parent
\* of item 2; the ids of the three tables overlap, as auto-increment ids do.
DbRows(table) ==
    CASE table = "users" ->
            << [id |-> Int64(1), phone |-> Str("555-0100"), best_order |-> Int64(1)],
               [id |-> Int64(2), phone |-> Str("555-0100"), best_order |-> Nil],
               [id |-> Int64(3), phone |-> Str("555-0101"), best_order |-> Int64(3)] >>
      [] table = "orders" ->
            << [id |-> Int64(1), user_id |-> Int32(1)],
               [id |-> Int64(2), user_id |-> Int32(3)],
               [id |-> Int64(3), user_id |-> Nil] >>
      [] table = "items" ->
            << [id |-> Int64(1), order_id |-> Int64(1), created_at |-> Day(2)],
               [id |-> Int64(2), order_id |-> Int64(2), created_at |-> Day(3)],
               [id |-> Int64(3), order_id |-> Nil, created_at |-> Day(3)],
               [id |-> Int64(4), order_id |-> Int64(1), created_at |-> Day(1)] >>
      [] OTHER -> <<>>

\* The foreign keys of the source: a chain, and the chain closed into a cycle.
ChainFks ==
    << ForeignKey("orders", "user_id", "users", "id"), ForeignKey("items", "order_id", "orders", "id") >>

CycleFks == ChainFks \o << ForeignKey("users", "best_order", "orders", "id") >>

ExportSchemas == {ChainFks, CycleFks}

\* database.StreamOptions and database.FKFilter
StreamOptions(limit, columnName, afterDate, fkFilters) ==
    [Limit |-> limit, ColumnName |-> columnName, AfterDate |-> afterDate, FKFilters |-> fkFilters]

FKFilter(column, allowedValues, allowNull) ==
    [Column |-> column, AllowedValues |-> allowedValues, AllowNull |-> allowNull]

\* The comparison the database makes between a column value and a bound
\* parameter: by the number or the text, whatever Go type carried it.
SqlEquals(v, a) ==
    CASE v.type \in IntTypes /\ a.type \in IntTypes -> v.e = a.e /\ v.r = a.r
      [] v.type \in {"string", "bytes"} /\ a.type \in {"string", "bytes"} -> v.s = a.s
      [] v.type \in {"float32", "float64"} /\ a.type \in {"float32", "float64"} -> v.m = a.m
      [] OTHER -> v = a

\* buildFKFilterClause(filter, &args), as the test the clause makes on a row;
\* the empty clause (no values, no NULL) tests nothing.
buildFKFilterClause(filter, row) ==
    LET v        == row[filter.Column]
        inClause == v # Nil /\ \E a \in filter.AllowedValues : SqlEquals(v, a)
    IN  IF filter.AllowedValues = {}
        THEN IF filter.AllowNull THEN v = Nil ELSE TRUE
        ELSE IF filter.AllowNull THEN inClause \/ v = Nil ELSE inClause

\* A query without the LIMIT clause.
QueryRowsNoLimit(table, opts) ==
    IF \E f \in opts.FKFilters : f.AllowedValues = {} /\ ~f.AllowNull THEN <<>>
    ELSE LET Where(row) ==
                 /\ (opts.ColumnName # "" /\ opts.AfterDate # 0) =>
                        (row[opts.ColumnName] # Nil /\ row[opts.ColumnName].day > opts.AfterDate)
                 /\ \A f \in opts.FKFilters : buildFKFilterClause(f, row)
         IN  SelectSeq(DbRows(table), Where)

\* The rows the query of StreamRows(table, opts, ...) returns, in table order:
\* WHERE date clause AND FK clauses, then LIMIT.
QueryRows(table, opts) ==
    IF \E f \in opts.FKFilters : f.AllowedValues = {} /\ ~f.AllowNull THEN <<>>
    ELSE LET Where(row) ==
                 /\ (opts.ColumnName # "" /\ opts.AfterDate # 0) =>
                        (row[opts.ColumnName] # Nil /\ row[opts.ColumnName].day > opts.AfterDate)
                 /\ \A f \in opts.FKFilters : buildFKFilterClause(f, row)
             matching == SelectSeq(DbRows(table), Where)
         IN  IF opts.Limit > 0 /\ opts.Limit < Len(matching)
             THEN SubSeq(matching, 1, opts.Limit)
             ELSE matching

(***************************************************************************)
(* exporter: the Dump Writer                                               *)
(*                                                                         *)
(*   Export(tables): header, then table by table in the order given:       *)
(*   preamble, then nothing more (truncate) or the batches of StreamRows,  *)
(*   each one filtered, anonymised, written as one INSERT and recorded in  *)
(*   the tracker; footer after the last table.                             *)
(***************************************************************************)
DefaultBatchSize == 1000

\* Options.BatchSize as used: a non-positive size falls back to the default.
EffectiveBatchSize(n) == IF n <= 0 THEN DefaultBatchSize ELSE n

\* The tables processed before the i-th one.
ProcessedBefore(i) == Range(SubSeq(sorted, 1, i - 1))

\* The foreign keys of the i-th table that are filtered on: enforcement is
\* active for the table and the referenced table was already processed.
EnforcedFks(i) ==
    IF ShouldEnforceFKIntegrity(config, fkIntegrity, sorted[i])
    THEN {fk \in Range(fks) : fk.Table = sorted[i] /\ fk.ReferencedTable \in ProcessedBefore(i)}
    ELSE {}

\* The allowed value sets handed to StreamRows: what the tracker holds, NULL allowed.
BuildFKFilters(i) ==
    {FKFilter(fk.Column, GetExportedValues(fk.ReferencedTable, fk.ReferencedColumn), TRUE) : fk \in EnforcedFks(i)}

\* The filter of StreamRows for the i-th table.
BuildStreamOptions(i) ==
    LET retain == GetRetainConfig(config, sorted[i])
    IN  StreamOptions(retain.Count, retain.ColumnName, retain.AfterDate, BuildFKFilters(i))

\* The rows of a batch that survive: every filtered foreign key is NULL or contained.
FilterBatch(i, rows) ==
    LET Keep(row) == \A fk \in EnforcedFks(i) :
                        HasValue(fk.ReferencedTable, fk.ReferencedColumn, row[fk.Column])
    IN  SelectSeq(rows, Keep)

\* The Anonymiser applied to the rows of a batch one after the other.
RECURSIVE AnonymiseBatch(_, _, _, _, _, _)
AnonymiseBatch(tableName, rows, i, mapOrders, draws, acc) ==
    IF i > Len(rows) THEN acc
    ELSE LET out == AnonymiseRowIn(config, acc.cmap, tableName, rows[i], mapOrders[i], draws[i])
         IN  AnonymiseBatch(tableName, rows, i + 1, mapOrders, draws,
                            [rows |-> Append(acc.rows, out.result), cmap |-> out.cmap])

\* The columns of a table that some foreign key references.
KeyColumns(table) == {fk.ReferencedColumn : fk \in {f \in Range(fks) : f.ReferencedTable = table}}

\* RecordValue for every key column of a row, then of every row of a batch.
RECURSIVE RecordRow(_, _, _, _)
RecordRow(keys, table, row, cols) ==
    IF cols = {} THEN keys
    ELSE LET c == CHOOSE c \in cols : TRUE
         IN  RecordRow(RecordValueIn(keys, table, c, row[c]), table, row, cols \ {c})

RECURSIVE RecordBatch(_, _, _, _)
RecordBatch(keys, table, rows, i) ==
    IF i > Len(rows) THEN keys
    ELSE RecordBatch(RecordRow(keys, table, rows[i], KeyColumns(table) \cap DOMAIN rows[i]), table, rows, i + 1)

NoStats == [TablesExported |-> 0, TablesTruncated |-> 0, RowsExported |-> 0]

\* The configurations the export is run with: users with or without a row
\* limit, orders exported or truncated, items with a date threshold and with
\* or without a table-level override of the integrity setting.
ExportConfig(usersCount, ordersTruncate, itemsFk) ==
    [t \in TableNames |->
        CASE t = "users"  -> TableConfig(FALSE, Unset, RetainConfig(usersCount, "", 0),
                                [c \in {"phone"} |-> "{{faker.phone}}"])
          [] t = "orders" -> TableConfig(ordersTruncate, Unset, NoRetain, NilColumns)
          [] OTHER        -> TableConfig(FALSE, itemsFk, RetainConfig(0, "created_at", 1), NilColumns)]

\* A configuration with rules of every kind: two generators that are not
\* registered, a registered one, a static value, the null rule and a table
\* whose configuration is nil.  logs is not a table of the source.
RulesConfig ==
    [t \in {"users", "orders", "items", "logs"} |->
        CASE t = "users"  -> TableConfig(FALSE, Unset, NoRetain, [c \in {"phone"} |-> "{{faker.nope}}"])
          [] t = "orders" -> NilConfig
          [] t = "items"  -> TableConfig(FALSE, Unset, NoRetain, [c \in {"created_at"} |-> "{{faker.missing}}"])
          [] OTHER        -> TableConfig(FALSE, Unset, NoRetain,
                                [c \in {"level", "msg", "host"} |->
                                    CASE c = "level" -> "info"
                                      [] c = "msg" -> "null"
                                      [] OTHER -> "{{faker.ipv4}}"])]

ExportConfigs ==
    {ExportConfig(usersCount, ordersTruncate, itemsFk) :
        usersCount \in {0, 2}, ordersTruncate \in BOOLEAN, itemsFk \in {Unset, Set(FALSE), Set(TRUE)}}
    \cup {RulesConfig, NilConfiguration}

IdleExport ==
    /\ fkIntegrity = Unset
    /\ batchSize = 0
    /\ warnings = <<>>
    /\ exportPc = "idle"
    /\ cur = 0
    /\ streamErr = FALSE
    /\ pending = <<>>
    /\ output = <<>>
    /\ stats = NoStats

\* runExport up to the sort: the tables and foreign keys of the source, the
\* configuration, a new tracker, a new anonymiser, a new exporter.
InitExport ==
    /\ tables \in {s \in DistinctSeqsUpTo(TableNames, MaxTables) : Len(s) >= 2}
    /\ fks \in ExportSchemas
    /\ fksErr = FALSE
    /\ sorted = <<>>
    /\ sortErr = FALSE
    /\ sortPc = "input"
    /\ exportedKeys = NewTracker
    /\ recorded = {}
    /\ mu = Unlocked
    /\ callers = [g \in Callers |-> IdleCaller]
    /\ config \in ExportConfigs
    /\ consistencyMap = <<>>
    /\ calls = {}
    /\ workers = [w \in Workers |-> IdleWorker]
    /\ fkIntegrity \in {Unset, Set(TRUE), Set(FALSE)}
    /\ batchSize \in 0..MaxBatchSize
    /\ warnings = <<>>
    /\ exportPc = "loaded"
    /\ cur = 0
    /\ streamErr = FALSE
    /\ pending = <<>>
    /\ output = <<>>
    /\ stats = NoStats

\* runExport after config.Load: ValidateRules, and each message it returns
\* written to standard error as a warning; the run goes on.
Validate ==
    /\ exportPc = "loaded"
    /\ \E tableOrder \in Perms(DOMAIN config), columnOrders \in ColumnOrders(config, DOMAIN config) :
          warnings' = ValidateRules(config, tableOrder, columnOrders)
    /\ exportPc' = "ready"
    /\ UNCHANGED <<fkIntegrity, batchSize, streamErr, cur, pending, output, stats>>

\* runExport: GetAllTables and SortTablesByDependency, after the warnings.
SortForExport == exportPc = "ready" /\ Sort

\* Export(sortedTables): the header of the dump.
ExportBegin ==
    /\ sortPc = "done" /\ ~sortErr
    /\ exportPc = "ready"
    /\ output' = Append(output, [kind |-> "header"])
    /\ cur' = 1
    /\ exportPc' = "table"
    /\ UNCHANGED <<fkIntegrity, batchSize, streamErr, warnings, pending, stats>>

\* An export that does not count a truncated table among the tables exported.
ExportTruncatedNotExported ==
    /\ exportPc = "table" /\ cur <= Len(sorted)
    /\ ShouldTruncate(config, sorted[cur])
    /\ output' = Append(output, [kind |-> "table", table |-> sorted[cur]])
    /\ stats' = [stats EXCEPT !.TablesTruncated = @ + 1]
    /\ cur' = cur + 1
    /\ UNCHANGED <<fkIntegrity, batchSize, streamErr, warnings, exportPc, pending>>

\* A truncated table: comment, DROP, CREATE and no rows; it counts as
\* truncated and as exported.
ExportTruncated ==
    /\ exportPc = "table" /\ cur <= Len(sorted)
    /\ ShouldTruncate(config, sorted[cur])
    /\ output' = Append(output, [kind |-> "table", table |-> sorted[cur]])
    /\ stats' = [stats EXCEPT !.TablesTruncated = @ + 1, !.TablesExported = @ + 1]
    /\ cur' = cur + 1
    /\ UNCHANGED <<fkIntegrity, batchSize, streamErr, warnings, exportPc, pending>>

\* Any other table: comment, DROP, CREATE, then StreamRows runs its query.
ExportTable ==
    /\ exportPc = "table" /\ cur <= Len(sorted)
    /\ ~ShouldTruncate(config, sorted[cur])
    /\ output' = Append(output, [kind |-> "table", table |-> sorted[cur]])
    /\ pending' = QueryRows(sorted[cur], BuildStreamOptions(cur))
    /\ exportPc' = "stream"
    /\ UNCHANGED <<fkIntegrity, batchSize, streamErr, warnings, cur, stats>>

\* StreamRows hands one batch to the callback: filter, anonymise, one INSERT,
\* record the keys, count the rows.
ExportBatch ==
    /\ exportPc = "stream" /\ pending # <<>>
    /\ LET n     == IF EffectiveBatchSize(batchSize) < Len(pending) THEN EffectiveBatchSize(batchSize) ELSE Len(pending)
           batch == FilterBatch(cur, SubSeq(pending, 1, n))
           table == sorted[cur]
       IN  /\ pending' = SubSeq(pending, n + 1, Len(pending))
           /\ \E mapOrders \in [1..Len(batch) -> Perms(DOMAIN RuledColumns(config, table))],
                 draws \in [1..Len(batch) -> [TemplateColumns(config, table) -> FakeStrings]] :
                 LET out == AnonymiseBatch(table, batch, 1, mapOrders, draws, [rows |-> <<>>, cmap |-> consistencyMap])
                 IN  /\ consistencyMap' = out.cmap
                     /\ output' = IF out.rows = <<>> THEN output
                                  ELSE Append(output, [kind |-> "insert", table |-> table, rows |-> out.rows])
                     /\ exportedKeys' = RecordBatch(exportedKeys, table, out.rows, 1)
                     /\ stats' = [stats EXCEPT !.RowsExported = @ + Len(out.rows)]
    /\ UNCHANGED <<fkIntegrity, batchSize, streamErr, warnings, exportPc, cur>>

\* StreamRows returns without error: the table is exported.
ExportTableDone ==
    /\ exportPc = "stream" /\ pending = <<>>
    /\ stats' = [stats EXCEPT !.TablesExported = @ + 1]
    /\ cur' = cur + 1
    /\ exportPc' = "table"
    /\ UNCHANGED <<fkIntegrity, batchSize, streamErr, warnings, pending, output>>

\* An export that takes a failed table for an exported one and goes on.
ExportStreamErrorIgnored ==
    /\ exportPc = "stream"
    /\ streamErr' = TRUE
    /\ pending' = <<>>
    /\ UNCHANGED <<fkIntegrity, batchSize, warnings, exportPc, cur, output, stats>>

\* StreamRows returns an error: Export returns it and the run is over.
ExportStreamError ==
    /\ exportPc = "stream"
    /\ streamErr' = TRUE
    /\ exportPc' = "failed"
    /\ UNCHANGED <<fkIntegrity, batchSize, warnings, cur, pending, output, stats>>

\* After the last table: the footer of the dump.
ExportEnd ==
    /\ exportPc = "table" /\ cur > Len(sorted)
    /\ output' = Append(output, [kind |-> "footer"])
    /\ exportPc' = "done"
    /\ UNCHANGED <<fkIntegrity, batchSize, streamErr, warnings, cur, pending, stats>>

NextExport ==
    \/ Validate /\ UNCHANGED <<configVars, streamVars, sortVars, trackerVars, anonVars>>
    \/ SortForExport /\ UNCHANGED <<configVars, streamVars, trackerVars, anonVars, exportVars>>
    \/ ExportBegin /\ UNCHANGED <<configVars, streamVars, sortVars, trackerVars, anonVars>>
    \/ ExportTruncated /\ UNCHANGED <<configVars, streamVars, sortVars, trackerVars, anonVars>>
    \/ ExportTable /\ UNCHANGED <<configVars, streamVars, sortVars, trackerVars, anonVars>>
    \/ ExportBatch /\ UNCHANGED <<configVars, streamVars, sortVars, recorded, mu, callers, config, calls, workers>>
    \/ ExportTableDone /\ UNCHANGED <<configVars, streamVars, sortVars, trackerVars, anonVars>>
    \/ ExportStreamError /\ UNCHANGED <<configVars, streamVars, sortVars, trackerVars, anonVars>>
    \/ ExportEnd /\ UNCHANGED <<configVars, streamVars, sortVars, trackerVars, anonVars>>

(***************************************************************************)
(* config: RetainConfig, its loading and saving                            *)
(*                                                                         *)
(*   A time.Time is the number of instants since the zero time, with       *)
(*   TicksPerDay instants to a day; 0 is the zero time.  A date string is  *)
(*   the layout it is written in with the day and the time of day it       *)
(*   names.  A YAML or JSON node is an integer, null, an object with the   *)
(*   keys column_name and after_date, or something else.                   *)
(***************************************************************************)
MaxCount == 2
MaxDay == 2
MaxTimeOfDay == 1

TicksPerDay == MaxTimeOfDay + 1

\* RetainConfig.IsDateBased, IsCountBased, IsEmpty
IsDateBased(r) == r.ColumnName # "" /\ r.AfterDate # 0

IsCountBased(r) == r.Count > 0

IsEmpty(r) == r.Count = 0 /\ r.ColumnName = "" /\ r.AfterDate = 0

DateString(layout, day, tod) == [layout |-> layout, day |-> day, tod |-> tod]

EmptyString == DateString("", 0, 0)

\* The layouts parseDate tries, in order.
formats == <<"2006-01-02", "2006-01-02T15:04:05", "2006-01-02 15:04:05", "RFC3339">>

\* The after_date strings a configuration may hold: none, a date, a date with
\* a time of day in three layouts, and one that is no date.
AfterDateStrings ==
    {EmptyString, DateString("other", 0, 0)}
    \cup {DateString("2006-01-02", d, 0) : d \in 0..MaxDay}
    \cup {DateString(formats[k], d, t) : k \in 2..4, d \in 0..MaxDay, t \in 0..MaxTimeOfDay}

\* A parseDate that keeps the day only.
parseDateDayOnly(str) ==
    IF \E k \in DOMAIN formats : formats[k] = str.layout
    THEN [t |-> str.day * TicksPerDay, err |-> FALSE]
    ELSE [t |-> 0, err |-> TRUE]

\* parseDate(s): the time the first matching layout gives, or an error.
parseDate(str) ==
    IF \E k \in DOMAIN formats : formats[k] = str.layout
    THEN [t |-> str.day * TicksPerDay + str.tod, err |-> FALSE]
    ELSE [t |-> 0, err |-> TRUE]

\* t.Format("2006-01-02")
FormatDate(t) == DateString("2006-01-02", t \div TicksPerDay, 0)

IntNode(n) == [kind |-> "int", n |-> n]
NullNode == [kind |-> "null"]
ObjectNode(columnName, afterDate) == [kind |-> "object", column_name |-> columnName, after_date |-> afterDate]
OtherNode == [kind |-> "string"]

\* The retain nodes a configuration file may hold.
RetainNodes ==
    {NullNode, OtherNode}
    \cup {IntNode(n) : n \in -1..MaxCount}
    \cup {ObjectNode(c, a) : c \in {"", "created_at"}, a \in AfterDateStrings}

\* Decoding the node into an int: an integer gives its value, null leaves the zero.
DecodeInt(node) ==
    CASE node.kind = "int" -> [n |-> node.n, err |-> FALSE]
      [] node.kind = "null" -> [n |-> 0, err |-> FALSE]
      [] OTHER -> [n |-> 0, err |-> TRUE]

\* The part of the unmarshal after the integer attempt: the object form.
UnmarshalObject(r, node) ==
    IF node.kind # "object" THEN [r |-> r, err |-> TRUE]
    ELSE IF node.column_name = "" THEN [r |-> r, err |-> TRUE]
    ELSE IF node.after_date = EmptyString THEN [r |-> r, err |-> TRUE]
    ELSE LET parsed == parseDate(node.after_date)
         IN  IF parsed.err THEN [r |-> r, err |-> TRUE]
             ELSE [r |-> [r EXCEPT !.ColumnName = node.column_name, !.AfterDate = parsed.t], err |-> FALSE]

\* An unmarshal that takes the count limit from the integer and keeps it as a
\* default when the node is an object.
UnmarshalYAMLWithDefaultCount(r, value) ==
    LET intVal == DecodeInt(value)
    IN  IF ~intVal.err THEN [r |-> [r EXCEPT !.Count = intVal.n], err |-> FALSE]
        ELSE UnmarshalObject([r EXCEPT !.Count = 1], value)

\* RetainConfig.UnmarshalYAML(value)
UnmarshalYAML(r, value) ==
    LET intVal == DecodeInt(value)
    IN  IF ~intVal.err THEN [r |-> [r EXCEPT !.Count = intVal.n], err |-> FALSE]
        ELSE UnmarshalObject(r, value)

\* RetainConfig.UnmarshalJSON(data)
UnmarshalJSON(r, data) ==
    LET intVal == DecodeInt(data)
    IN  IF ~intVal.err THEN [r |-> [r EXCEPT !.Count = intVal.n], err |-> FALSE]
        ELSE UnmarshalObject(r, data)

\* RetainConfig.MarshalYAML()
MarshalYAML(r) ==
    IF IsDateBased(r) THEN ObjectNode(r.ColumnName, FormatDate(r.AfterDate))
    ELSE IF r.Count > 0 THEN IntNode(r.Count)
    ELSE NullNode

\* RetainConfig.MarshalJSON()
MarshalJSON(r) ==
    IF IsDateBased(r) THEN ObjectNode(r.ColumnName, FormatDate(r.AfterDate))
    ELSE IF r.Count > 0 THEN IntNode(r.Count)
    ELSE NullNode

\* A retain node of a file in one of the two formats, about to be loaded into
\* a fresh RetainConfig.
RetainLoad(format, node) ==
    [pc |-> "input", format |-> format, node |-> node, r |-> NoRetain, saved |-> NullNode, reloaded |-> NoRetain]

IdleLoad == [pc |-> "idle", format |-> "", node |-> NullNode, r |-> NoRetain, saved |-> NullNode, reloaded |-> NoRetain]

IdleConfig == retainLoad = IdleLoad

InitConfig == retainLoad \in {RetainLoad(format, node) : format \in {"yaml", "json"}, node \in RetainNodes}

\* config.Load: the retain node is unmarshalled into a fresh RetainConfig.
Unmarshal ==
    /\ retainLoad.pc = "input"
    /\ LET out == IF retainLoad.format = "yaml" THEN UnmarshalYAML(NoRetain, retainLoad.node)
                  ELSE UnmarshalJSON(NoRetain, retainLoad.node)
       IN  retainLoad' = [retainLoad EXCEPT !.pc = IF out.err THEN "rejected" ELSE "loaded", !.r = out.r]

\* The configuration is saved: the RetainConfig is marshalled.
Marshal ==
    /\ retainLoad.pc = "loaded"
    /\ retainLoad' = [retainLoad EXCEPT !.pc = "saved",
                         !.saved = IF retainLoad.format = "yaml" THEN MarshalYAML(retainLoad.r)
                                   ELSE MarshalJSON(retainLoad.r)]

\* The saved configuration is loaded again, into a fresh RetainConfig.
Reload ==
    /\ retainLoad.pc = "saved"
    /\ LET out == IF retainLoad.format = "yaml" THEN UnmarshalYAML(NoRetain, retainLoad.saved)
                  ELSE UnmarshalJSON(NoRetain, retainLoad.saved)
       IN  retainLoad' = [retainLoad EXCEPT !.pc = IF out.err THEN "reload failed" ELSE "reloaded",
                                            !.reloaded = out.r]

NextConfig ==
    \/ Unmarshal /\ UNCHANGED <<sortVars, trackerVars, anonVars, exportVars, streamVars>>
    \/ Marshal /\ UNCHANGED <<sortVars, trackerVars, anonVars, exportVars, streamVars>>
    \/ Reload /\ UNCHANGED <<sortVars, trackerVars, anonVars, exportVars, streamVars>>

(***************************************************************************)
(* database: the loop of Driver.StreamRows                                 *)
(***************************************************************************)
\* What a callback returns: nil or an error.
NoError == ""
CallbackErrors == {NoError, "test error"}

\* The options StreamRows is called with.
StreamCalls ==
    {StreamOptions(limit, "", 0, {}) : limit \in {0, 2}} \cup {StreamOptions(0, "created_at", 1, {})}

\* StreamRows(table, opts, batchSize, callback) after its query: the rows
\* the cursor has not given yet, the batch being filled, the callbacks made.
StreamCall(table, opts, size) ==
    [pc |-> "next", table |-> table, opts |-> opts, batchSize |-> size,
     rows |-> QueryRows(table, opts), batch |-> <<>>, callbacks |-> <<>>, err |-> NoError]

IdleStream ==
    stream = [pc |-> "idle", table |-> "", opts |-> StreamOptions(0, "", 0, {}), batchSize |-> 0,
              rows |-> <<>>, batch |-> <<>>, callbacks |-> <<>>, err |-> NoError]

InitStream ==
    \E table \in TableNames \cup {"products"}, opts \in StreamCalls, size \in 0..MaxBatchSize :
        /\ opts.ColumnName # "" => table = "items"
        /\ stream = StreamCall(table, opts, size)

\* A loop that goes on after a callback has returned an error.
StreamNextIgnoringError ==
    /\ stream.pc = "next" /\ stream.rows # <<>>
    /\ LET batch == Append(stream.batch, Head(stream.rows))
       IN  IF Len(batch) >= stream.batchSize
           THEN \E err \in CallbackErrors :
                   stream' = [stream EXCEPT !.rows = Tail(@), !.batch = <<>>,
                                  !.callbacks = Append(@, [rows |-> batch, err |-> err])]
           ELSE stream' = [stream EXCEPT !.rows = Tail(@), !.batch = batch]

\* One turn of "for rows.Next()": scan the row, append it to the batch, and
\* when the batch is full hand it to the callback; an error of the callback
\* is returned at once.
StreamNext ==
    /\ stream.pc = "next" /\ stream.rows # <<>>
    /\ LET batch == Append(stream.batch, Head(stream.rows))
       IN  IF Len(batch) >= stream.batchSize
           THEN \E err \in CallbackErrors :
                   stream' = [stream EXCEPT !.rows = Tail(@), !.batch = <<>>,
                                  !.callbacks = Append(@, [rows |-> batch, err |-> err]),
                                  !.err = err,
                                  !.pc = IF err # NoError THEN "returned" ELSE "next"]
           ELSE stream' = [stream EXCEPT !.rows = Tail(@), !.batch = batch]

\* After the loop: the rows that remain are handed to the callback, and
\* StreamRows returns.
StreamEnd ==
    /\ stream.pc = "next" /\ stream.rows = <<>>
    /\ IF Len(stream.batch) > 0
       THEN \E err \in CallbackErrors :
               stream' = [stream EXCEPT !.batch = <<>>,
                              !.callbacks = Append(@, [rows |-> stream.batch, err |-> err]),
                              !.err = err, !.pc = "returned"]
       ELSE stream' = [stream EXCEPT !.pc = "returned"]

NextStream ==
    \/ StreamNext /\ UNCHANGED <<sortVars, trackerVars, anonVars, exportVars, configVars>>
    \/ StreamEnd /\ UNCHANGED <<sortVars, trackerVars, anonVars, exportVars, configVars>>

(***************************************************************************)
(* Specifications                                                          *)
(***************************************************************************)
InitSpecSort == InitSort /\ IdleTracker /\ IdleAnon /\ IdleExport /\ IdleConfig /\ IdleStream

SpecSort == InitSpecSort /\ [][NextSort]_vars

InitSpecTracker == IdleSort /\ InitTracker /\ IdleAnon /\ IdleExport /\ IdleConfig /\ IdleStream

SpecTracker == InitSpecTracker /\ [][NextTracker]_vars

SpecTrackerConc == InitSpecTracker /\ [][NextTrackerConc]_vars

InitSpecAnon == IdleSort /\ IdleTracker /\ InitAnon /\ IdleExport /\ IdleConfig /\ IdleStream

SpecAnon == InitSpecAnon /\ [][NextAnon]_vars

SpecAnonConc == InitSpecAnon /\ [][NextAnonConc]_vars

\* The pipeline of runExport: validate, sort, then export.
InitSpec == InitExport /\ IdleConfig /\ IdleStream

Spec == InitSpec /\ [][NextExport]_vars

\* Loading, saving and loading again the retain node of a table.
InitSpecConfig == IdleSort /\ IdleTracker /\ IdleAnon /\ IdleExport /\ InitConfig /\ IdleStream

SpecConfig == InitSpecConfig /\ [][NextConfig]_vars

\* One call of StreamRows.
InitSpecStream == IdleSort /\ IdleTracker /\ IdleAnon /\ IdleExport /\ IdleConfig /\ InitStream

SpecStream == InitSpecStream /\ [][NextStream]_vars

(***************************************************************************)
(* anonymiser: properties                                                  *)
(***************************************************************************)
\* col is ruled by a faker template in the table's configuration.
FakerRuled(tableName, col) ==
    LET columns == RuledColumns(config, tableName)
    IN  col \in DOMAIN columns /\ FindStringSubmatch(columns[col]) # <<>>

\* An original value that is neither absent (NULL) nor the empty string.
NonEmpty(v) == v # Nil /\ v # Str("")

\* Two returned calls agree on col whenever col is faker-ruled in both tables and
\* both rows carry the same original value, one that Keyed accepts.
SameSubstitute(Keyed(_)) ==
    \A c1, c2 \in calls :
        \A col \in DOMAIN c1.row \cap DOMAIN c2.row :
            (/\ FakerRuled(c1.table, col) /\ FakerRuled(c2.table, col)
             /\ c1.row[col] = c2.row[col]
             /\ Keyed(c1.row[col]))
                => c1.result[col] = c2.result[col]

IsNonEmptyString(v) == v # Nil /\ v.type = "string" /\ v.s # ""

\* C4: rows sharing the same original value of any type, empty and absent
\* values excepted, get the identical substitute in a faker-ruled column from
\* sequential AnonymiseRow calls on one Anonymiser.
C4_SameOriginalSameSubstitute == SameSubstitute(NonEmpty)

\* C5: concurrent AnonymiseRow calls on rows with the same non-empty original
\* value in a faker-ruled column all return the same substitute.
C5_ConcurrentSameSubstitute == SameSubstitute(IsNonEmptyString)

\* col is ruled in the table by a faker template whose generator is not registered.
UnknownGenerator(tableName, col) ==
    /\ FakerRuled(tableName, col)
    /\ FindStringSubmatch(RuledColumns(config, tableName)[col])[1] \notin fakerFunctions

\* C15 as stated: a column whose faker template names an unregistered generator
\* keeps its original value.
C15_UnknownGeneratorPassesThrough ==
    \A call \in calls : \A col \in DOMAIN call.row :
        UnknownGenerator(call.table, col) => call.result[col] = call.row[col]

\* C15 amended: the run proceeds and the column does not keep its value: a
\* call returns in it the substitute the consistency map held for the column
\* name and the original value when the call began, and the empty string when
\* it held none.
C15_UnknownGeneratorGivesEmpty ==
    [][\A call \in calls' \ calls : \A col \in DOMAIN call.row :
          UnknownGenerator(call.table, col) =>
              LET key == ConsistencyKey(col, OriginalStr(call.row[col]))
              IN  IF key \in DOMAIN consistencyMap
                  THEN call.result[col] = Str(consistencyMap[key])
                  ELSE call.result[col] = Str("")]_vars

\* An unregistered generator turned a non-empty original into the empty string.
C15_Witness ==
    \E call \in calls : \E col \in DOMAIN call.row :
        /\ UnknownGenerator(call.table, col)
        /\ call.row[col] # Nil /\ call.row[col] # Str("")
        /\ call.result[col] = Str("")

\* An original value that is absent (NULL) or the empty string.
EmptyOriginal(v) == v = Nil \/ v = Str("")

\* The rule of the column is the null rule: "null" or the empty string.
NullRuled(tableName, col) ==
    /\ col \in DOMAIN RuledColumns(config, tableName)
    /\ RuledColumns(config, tableName)[col] \in {"null", ""}

\* The columns of the row whose rule is a faker template.
TemplatePresent(call) == TemplateColumns(config, call.table) \cap DOMAIN call.row

\* C18: a column whose rule is "null" or the empty string, when present in
\* the row, is NULL in the result, and handling it leaves the consistency map
\* as it was: no entry for that column and its original appears, and a call
\* that has no faker-ruled column leaves the whole map unchanged.
C18_NullRuleSetsNull ==
    /\ [](\A call \in calls : \A col \in DOMAIN call.row :
            NullRuled(call.table, col) => call.result[col] = Nil)
    /\ [][\A call \in calls' \ calls :
            /\ \A col \in DOMAIN call.row :
                    NullRuled(call.table, col) =>
                        \A k \in DOMAIN consistencyMap' \ DOMAIN consistencyMap :
                            k # ConsistencyKey(col, OriginalStr(call.row[col]))
            /\ \A k \in DOMAIN consistencyMap : consistencyMap'[k] = consistencyMap[k]
            /\ TemplatePresent(call) = {} => consistencyMap' = consistencyMap]_vars

\* A users row with notes "vip" came back with notes NULL, and an orders row
\* with memo "gift" came back with memo NULL.
C18_Witness ==
    /\ \E call \in calls :
            /\ call.table = "users" /\ "notes" \in DOMAIN call.row
            /\ call.row["notes"] = Str("vip") /\ call.result["notes"] = Nil
    /\ \E call \in calls :
            /\ call.table = "orders" /\ "memo" \in DOMAIN call.row
            /\ call.row["memo"] = Str("gift") /\ call.result["memo"] = Nil

\* C17: the consistency map is keyed by column name and original value, not by
\* table.  Rows of two different tables with a same-named faker-ruled column
\* and the same non-empty original value get the same substitute, whichever
\* table comes first.
C17_SharedAcrossTables ==
    \A c1, c2 \in calls :
        c1.table # c2.table =>
            \A col \in DOMAIN c1.row \cap DOMAIN c2.row :
                (/\ FakerRuled(c1.table, col) /\ FakerRuled(c2.table, col)
                 /\ c1.row[col] = c2.row[col]
                 /\ ~EmptyOriginal(c1.row[col]))
                    => c1.result[col] = c2.result[col]

\* The columns some table has a rule for.
AllRuledColumns == UNION {DOMAIN RuledColumns(config, t) : t \in DOMAIN config}

\* C16: an empty or absent original in a faker-ruled column bypasses the
\* consistency map.  The map never holds a key with an empty original, so no
\* substitute is ever reused for one; a call whose faker-ruled columns are all
\* empty or absent leaves the map as it was; and the column gets a value of the
\* generator.
C16_EmptyOriginalBypassesMap ==
    /\ [](\A col \in AllRuledColumns : ConsistencyKey(col, "") \notin DOMAIN consistencyMap)
    /\ [][\A call \in calls' \ calls :
            /\ (\A col \in DOMAIN call.row :
                    FakerRuled(call.table, col) => EmptyOriginal(call.row[col]))
                  => consistencyMap' = consistencyMap
            /\ \A col \in DOMAIN call.row :
                  (FakerRuled(call.table, col) /\ ~UnknownGenerator(call.table, col)
                   /\ EmptyOriginal(call.row[col]))
                      => call.result[col] \in {Str(f) : f \in FakeStrings}]_vars

\* Two calls for rows with the same absent original in a faker-ruled column
\* returned different substitutes, and the map holds nothing.
C16_Witness ==
    /\ consistencyMap = <<>>
    /\ \E c1, c2 \in calls : \E col \in DOMAIN c1.row \cap DOMAIN c2.row :
          /\ c1.table = c2.table /\ FakerRuled(c1.table, col)
          /\ c1.row[col] = Nil /\ c2.row[col] = Nil
          /\ c1.result[col] # c2.result[col]

\* The frame of a returned call: the map given holds what it held, a column
\* without a rule for the table carries its original value, no column is added.
FrameKept(call) ==
    /\ call.input = call.row
    /\ DOMAIN call.result = DOMAIN call.row
    /\ \A col \in DOMAIN call.row \ DOMAIN RuledColumns(config, call.table) :
          call.result[col] = call.row[col]

UnknownRules == {p \in (DOMAIN config) \X AllRuledColumns : UnknownGenerator(p[1], p[2])}

\* The message that names the rule of the column.
MessageFor(tableName, col) ==
    UnknownFakerMessage(FindStringSubmatch(RuledColumns(config, tableName)[col])[1], tableName, col)

\* C19: ValidateRules reports exactly one message for each configured (table,
\* column) faker rule that names an unregistered generator and nothing else:
\* none for registered generators, static values, null rules, nil table
\* configurations or a nil Configuration.  The warnings are out before any
\* data is touched, and the run goes on whatever they are.
C19_OneWarningPerUnknownRule ==
    /\ [](exportPc \notin {"idle", "loaded"} =>
            /\ Len(warnings) = Cardinality(UnknownRules)
            /\ \A p \in UnknownRules :
                  Cardinality({i \in DOMAIN warnings : warnings[i] = MessageFor(p[1], p[2])}) = 1)
    /\ [](exportPc = "loaded" =>
            /\ sortPc = "input" /\ output = <<>> /\ stats = NoStats
            /\ consistencyMap = <<>> /\ exportedKeys = NewTracker)
    /\ [][exportPc = "loaded" => exportPc' = "ready"]_vars

\* Two rules name generators that are not registered, next to a registered
\* one, a static value, a null rule and a nil table configuration; both were
\* reported and the export ran to its end and wrote rows.
C19_Witness ==
    /\ config = RulesConfig
    /\ Len(warnings) = 2
    /\ exportPc = "done"
    /\ stats.RowsExported > 0

(***************************************************************************)
(* fktracker: properties                                                   *)
(***************************************************************************)
\* Two values of integer types that hold the same number.
SameInteger(v, w) ==
    /\ v.type \in IntTypes /\ w.type \in IntTypes
    /\ v.e = w.e /\ v.r = w.r

\* Two values of floating types that hold the same number.
SameFloat(v, w) ==
    /\ v.type \in {"float32", "float64"} /\ w.type \in {"float32", "float64"}
    /\ v.m = w.m

\* A byte sequence and a string (or two of either) with the same bytes.
SameText(v, w) ==
    /\ v.type \in {"bytes", "string"} /\ w.type \in {"bytes", "string"}
    /\ v.s = w.s

\* C10: after RecordValue(t, c, v) with non-nil v, HasValue(t, c, w) is true for
\* w = v and for every w holding the same integer in any integer type, the same
\* number in float32 or float64, or the same bytes as a byte slice or a string.
C10_RecordedIsFound ==
    \A rec \in recorded :
        rec[3] # Nil =>
            \A w \in GoValues \ {Nil} :
                (w = rec[3] \/ SameInteger(rec[3], w) \/ SameFloat(rec[3], w) \/ SameText(rec[3], w))
                    => HasValue(rec[1], rec[2], w)

C10_Witness ==
    /\ <<"users", "id", IntValue("int32", 0, 7)>> \in recorded
    /\ <<"users.uuid", "id", [type |-> "bytes", s |-> "ab"]>> \in recorded
    /\ HasValue("users", "id", IntValue("uint", 0, 7))
    /\ HasValue("users", "id", IntValue("int64", 0, 7))
    /\ HasValue("users.uuid", "id", [type |-> "string", s |-> "ab"])
    /\ ~HasValue("users", "id", IntValue("int64", 0, 200))

\* C11: NULL is never stored and always matches.  HasValue(t, c, nil) is true
\* for every table and column in every state, no exported set holds nil, and a
\* RecordValue(t, c, nil) leaves the exported sets, and so every count, as
\* they were.
C11_NilNeverStoredAlwaysMatches ==
    /\ [](/\ \A t \in TrackerTables, c \in TrackerColumns : HasValue(t, c, Nil)
          /\ \A key \in DOMAIN exportedKeys : Nil \notin exportedKeys[key])
    /\ [][\A rec \in recorded' \ recorded : rec[3] = Nil => exportedKeys' = exportedKeys]_vars

\* nil was recorded for a column that holds nothing, next to a column that holds a value.
C11_Witness ==
    /\ \E rec \in recorded :
          /\ rec[3] = Nil
          /\ GetExportedCount(rec[1], rec[2]) = 0
          /\ GetExportedValues(rec[1], rec[2]) = {}
          /\ HasValue(rec[1], rec[2], Nil)
    /\ \E rec \in recorded : rec[3] # Nil /\ GetExportedCount(rec[1], rec[2]) = 1

\* The RecordValue calls that returned with a non-nil value for the column.
RecordedFor(table, column) == {rec \in recorded : rec[1] = table /\ rec[2] = column /\ rec[3] # Nil}

\* C13: under every interleaving of RecordValue and HasValue calls no recorded
\* value is lost.  Every value whose RecordValue returned is found by HasValue; a
\* HasValue called after the RecordValue of its value returned answers true; and
\* with no RecordValue under way, GetExportedCount is the number of distinct
\* values recorded.
C13_NoRecordedValueLost ==
    /\ \A rec \in recorded : HasValue(rec[1], rec[2], rec[3])
    /\ \A g \in Callers : (callers[g].pc = "answered" /\ callers[g].sure) => callers[g].result
    /\ (\A g \in Callers : callers[g].pc \notin {"lock", "store"}) =>
          \A column \in ConcColumns :
              GetExportedCount("users", column) =
                  Cardinality({normalizeValue(rec[3]) : rec \in RecordedFor("users", column)})

\* Two goroutines recorded different values for one column, the count is two,
\* and a HasValue that ran next to a RecordValue has answered.
C13_Witness ==
    /\ \A g \in Callers : callers[g].pc \notin {"lock", "store"}
    /\ GetExportedCount("users", "id") = 2
    /\ Cardinality(RecordedFor("users", "id")) = 2
    /\ \E g \in Callers : callers[g].pc = "answered" /\ callers[g].value # Nil /\ callers[g].result

\* C12: the exported sets are isolated per (table, column).  For non-nil v,
\* HasValue(t, c, v) is true only if RecordValue was called with the same table,
\* the same column and a value that normalises as v does.
C12_IsolatedPerTableColumn ==
    \A t \in TrackerTables, c \in TrackerColumns, v \in GoValues \ {Nil} :
        HasValue(t, c, v) =>
            \E rec \in recorded :
                /\ rec[1] = t /\ rec[2] = c
                /\ rec[3] # Nil /\ normalizeValue(rec[3]) = normalizeValue(v)

(***************************************************************************)
(* schema: properties of the dependency order                              *)
(***************************************************************************)
SortReturned == sortPc = "done" /\ ~fksErr

\* The ordering constraints: <<A, B>> when A depends on B, A # B, both in the input.
ConstraintEdges ==
    {<<fks[i].Table, fks[i].ReferencedTable>> : i \in
        {j \in DOMAIN fks : /\ fks[j].Table \in Range(tables)
                            /\ fks[j].ReferencedTable \in Range(tables)
                            /\ fks[j].Table # fks[j].ReferencedTable}}

\* A set of tables each of which depends on a member of the set.
SelfSustaining(S) == \A t \in S : \E e \in ConstraintEdges : e[1] = t /\ e[2] \in S

\* The constraint edges contain a genuine cycle.
HasCycle == \E S \in (SUBSET Range(tables)) \ {{}} : SelfSustaining(S)

\* The cycle members and the tables that transitively depend on them.
Unplaceable == UNION {S \in SUBSET Range(tables) : SelfSustaining(S)}

\* A table with no ordering constraint on it.
Unconstrained(t) == \A e \in ConstraintEdges : e[1] # t

Pos(t) == IndexOf(sorted, t)

\* C1: the output of SortTablesByDependency is a permutation of the input: every
\* input table appears exactly once and no other table appears, whatever the
\* edges (self-references, duplicates, edges to absent tables, cycles).
C1_Permutation ==
    SortReturned =>
        /\ \A t \in Range(tables) : Cardinality({i \in DOMAIN sorted : sorted[i] = t}) = 1
        /\ \A i \in DOMAIN sorted : sorted[i] \in Range(tables)

C1_Witness ==
    /\ SortReturned
    /\ Len(tables) = 3
    /\ HasCycle
    /\ \E i \in DOMAIN fks : fks[i].Table = fks[i].ReferencedTable
    /\ Len(sorted) = 3

\* C2: when the constraint edges are acyclic, every referenced table B precedes
\* every table A that depends on it; [orders, users] with orders -> users
\* gives [users, orders].
C2_ParentsFirst ==
    (SortReturned /\ ~HasCycle) =>
        /\ \A e \in ConstraintEdges : Pos(e[2]) > 0 /\ Pos(e[2]) < Pos(e[1])
        /\ (tables = <<"orders", "users">> /\ <<"orders", "users">> \in ConstraintEdges)
              => sorted = <<"users", "orders">>

C2_Witness ==
    /\ SortReturned
    /\ ~HasCycle
    /\ tables = <<"items", "orders", "users">>
    /\ ConstraintEdges = {<<"orders", "users">>, <<"items", "orders">>}
    /\ Len(fks) = 3
    /\ sorted = <<"users", "orders", "items">>

\* C6: tables that become ready at the same step are emitted in input order, so
\* the output is the one the input-order traversal gives.
C6_InputOrderTieBreak ==
    SortReturned => sorted = SortTablesByDependency(tables, fks, tables)

\* C7: with a genuine cycle the call returns without error, and the output is
\* the tables Kahn's algorithm placed followed by every unplaced table (cycle
\* members and their transitive dependents) in input order; nothing is dropped.
C7_CycleAppended ==
    (sortPc = "done" /\ ~fksErr /\ HasCycle) =>
        LET k == Len(tables) - Cardinality(Unplaceable)
        IN  /\ ~sortErr
            /\ Len(sorted) = Len(tables)
            /\ \A i \in 1..k : sorted[i] \notin Unplaceable
            /\ SubSeq(sorted, k + 1, Len(sorted)) = SelectSeq(tables, LAMBDA t : t \in Unplaceable)

C7_Witness ==
    /\ SortReturned
    /\ tables = <<"items", "users", "orders">>
    /\ ConstraintEdges = {<<"users", "orders">>, <<"orders", "users">>, <<"items", "users">>}
    /\ sorted = <<"items", "users", "orders">>
    /\ Unplaceable = {"items", "users", "orders"}

\* C8: self-references and edges to or from absent tables add nothing to any
\* in-degree: the tables with no constraint edge are exactly the initial queue,
\* emitted first and in input order, never left to the cycle fallback.
C8_OnlyRealEdgesConstrain ==
    SortReturned =>
        LET ready == SelectSeq(tables, Unconstrained)
        IN  /\ SubSeq(sorted, 1, Len(ready)) = ready
            /\ \A t \in Range(ready) : t \notin Unplaceable

C8_Witness ==
    /\ SortReturned
    /\ tables = <<"orders", "users">>
    /\ \E i \in DOMAIN fks : fks[i].Table = "users" /\ fks[i].ReferencedTable = "users"
    /\ \E i \in DOMAIN fks : fks[i].Table = "users" /\ fks[i].ReferencedTable = "items"
    /\ \E i \in DOMAIN fks : fks[i].Table = "orders" /\ fks[i].ReferencedTable = "users"
    /\ sorted = <<"users", "orders">>

(***************************************************************************)
(* exporter: properties of the dump                                        *)
(***************************************************************************)
\* Where the INSERT statements are in the output, and the rows written for a table.
Inserts == {k \in DOMAIN output : output[k].kind = "insert"}

ExportedRows(table) == UNION {Range(output[k].rows) : k \in {j \in Inserts : output[j].table = table}}

\* The foreign key is one the export of its table filters on: enforcement is
\* active for the child and the parent comes earlier in the order.
FilteredOn(fk) ==
    /\ ShouldEnforceFKIntegrity(config, fkIntegrity, fk.Table)
    /\ Pos(fk.ReferencedTable) > 0
    /\ Pos(fk.ReferencedTable) < Pos(fk.Table)

TablesBegun ==
    LET IsTable(e) == e.kind = "table"
        entries    == SelectSeq(output, IsTable)
    IN  [j \in DOMAIN entries |-> entries[j].table]

\* The table whose section of the output the k-th entry lies in.
SectionOf(k) ==
    LET before == {j \in 1..k : output[j].kind = "table"}
    IN  IF before = {} THEN "" ELSE output[CHOOSE j \in before : \A h \in before : h <= j].table

\* C9: the tables are processed in the order given, one at a time (every
\* INSERT lies in the section of its own table), batch by batch (an INSERT holds
\* at most a batch), and whenever the export is at a table, the key values of
\* every row written so far are in the tracker: all keys of a table are there
\* before a row of a later table is filtered.
C9_KeysRecordedInOrder ==
    /\ TablesBegun = SubSeq(sorted, 1, Len(TablesBegun))
    /\ exportPc \in {"table", "stream"} => Len(TablesBegun) = (IF exportPc = "stream" THEN cur ELSE cur - 1)
    /\ \A k \in Inserts :
          /\ SectionOf(k) = output[k].table
          /\ Len(output[k].rows) <= EffectiveBatchSize(batchSize)
          /\ \A row \in Range(output[k].rows) : \A c \in KeyColumns(output[k].table) :
                normalizeValue(row[c]) \in GetExportedValues(output[k].table, c)

\* A later table is about to be filtered on a parent whose rows were written
\* in more than one batch.
C9_Witness ==
    /\ exportPc = "stream" /\ cur >= 2 /\ pending # <<>>
    /\ \E fk \in Range(fks) :
          /\ fk.Table = sorted[cur] /\ FilteredOn(fk)
          /\ Cardinality({k \in Inserts : output[k].table = fk.ReferencedTable}) >= 2
          /\ GetExportedValues(fk.ReferencedTable, fk.ReferencedColumn) # {}

\* The table is configured with truncate: true.
Truncated(t) == t \in DOMAIN config /\ config[t] # NilConfig /\ config[t].Truncate

\* The tables Export has finished with.
Finished == IF exportPc \in {"table", "stream", "done", "failed"} THEN 1..(cur - 1) ELSE {}

\* C20: a truncated table goes from its header to the end of its section with
\* no streaming.  Its comment, DROP and CREATE are written once, the next
\* thing written is the next table or the footer, no query runs for it, no
\* INSERT is written for it however many rows the source holds, and it is
\* counted as truncated.
C20_TruncatedTableHasNoRows ==
    /\ \A k \in Inserts : ~Truncated(output[k].table)
    /\ exportPc = "stream" => ~Truncated(sorted[cur])
    /\ \A j \in DOMAIN output :
          (output[j].kind = "table" /\ Truncated(output[j].table)) =>
              (j = Len(output) \/ output[j + 1].kind \in {"table", "footer"})
    /\ \A i \in Finished :
          Truncated(sorted[i]) =>
              Cardinality({j \in DOMAIN output : output[j].kind = "table" /\ output[j].table = sorted[i]}) = 1
    /\ stats.TablesTruncated = Cardinality({i \in Finished : Truncated(sorted[i])})

\* The export is over; orders, which holds three rows in the source, was
\* truncated between two tables that were written with rows.
C20_Witness ==
    /\ exportPc = "done"
    /\ Truncated("orders") /\ Len(DbRows("orders")) = 3
    /\ sorted = <<"users", "orders", "items">>
    /\ stats.TablesTruncated = 1
    /\ ExportedRows("users") # {} /\ ExportedRows("items") # {}
    /\ ExportedRows("orders") = {}

\* The rows written for a table, in the order they were written.
RECURSIVE WrittenUpTo(_, _)
WrittenUpTo(table, k) ==
    IF k = 0 THEN <<>>
    ELSE IF output[k].kind = "insert" /\ output[k].table = table
         THEN WrittenUpTo(table, k - 1) \o output[k].rows
         ELSE WrittenUpTo(table, k - 1)

Written(table) == WrittenUpTo(table, Len(output))

Ids(rows) == [j \in DOMAIN rows |-> rows[j].id]

Min(a, b) == IF a < b THEN a ELSE b

\* The number of rows written in all INSERT statements.
RECURSIVE RowsWrittenUpTo(_)
RowsWrittenUpTo(k) ==
    IF k = 0 THEN 0
    ELSE RowsWrittenUpTo(k - 1) + (IF output[k].kind = "insert" THEN Len(output[k].rows) ELSE 0)

\* The table is configured with a count limit: retain.Count > 0.
CountLimited(t) == t \in DOMAIN config /\ config[t] # NilConfig /\ config[t].Retain.Count > 0

\* C21 as stated: a finished table with CountLimit(n), n > 0, and m source
\* rows has exactly min(n, m) rows written, the first of the source in source
\* order, and the rows-exported counter is the number of rows written.
C21_CountLimitFirstRows ==
    /\ stats.RowsExported = RowsWrittenUpTo(Len(output))
    /\ \A i \in Finished :
          (CountLimited(sorted[i]) /\ ~Truncated(sorted[i])) =>
              LET source == DbRows(sorted[i])
                  n      == config[sorted[i]].Retain.Count
              IN  Ids(Written(sorted[i])) = Ids(SubSeq(source, 1, Min(n, Len(source))))

\* C21 amended: the same for a table no foreign-key filter applies to; a
\* table that is filtered on a foreign key has at most min(n, m) rows written.
C21_CountLimitWithoutFkFilter ==
    /\ stats.RowsExported = RowsWrittenUpTo(Len(output))
    /\ \A i \in Finished :
          (CountLimited(sorted[i]) /\ ~Truncated(sorted[i])) =>
              LET source == DbRows(sorted[i])
                  n      == config[sorted[i]].Retain.Count
              IN  /\ Len(Written(sorted[i])) <= Min(n, Len(source))
                  /\ EnforcedFks(i) = {} =>
                        Ids(Written(sorted[i])) = Ids(SubSeq(source, 1, Min(n, Len(source))))

\* users, three rows in the source and a count limit of two, was exported
\* with no foreign-key filter, one row to a batch: its first two rows were
\* written and the counter stands at two.
C21_Witness ==
    /\ exportPc = "table" /\ cur = 2
    /\ sorted[1] = "users" /\ CountLimited("users")
    /\ config["users"].Retain.Count = 2 /\ Len(DbRows("users")) = 3
    /\ batchSize = 1
    /\ Ids(Written("users")) = <<Int64(1), Int64(2)>>
    /\ stats.RowsExported = 2

\* C22: a streaming error while a table is streamed makes Export return an
\* error and ends the run.  From then on the run has failed, nothing more is
\* written (no INSERT, no later table, no footer), no table is begun or
\* counted, and the run never reaches success.
C22_StreamErrorAborts ==
    /\ [](streamErr => /\ exportPc = "failed"
                       /\ \A k \in DOMAIN output : output[k].kind # "footer")
    /\ [][streamErr => (output' = output /\ cur' = cur /\ stats' = stats /\ exportPc' = "failed")]_vars

\* The source failed while the second table was streamed, after rows of it
\* had been written, with a table still to come.
C22_Witness ==
    /\ streamErr /\ exportPc = "failed"
    /\ cur = 2 /\ Len(sorted) = 3
    /\ Written(sorted[2]) # <<>> /\ pending # <<>>
    /\ Written(sorted[3]) = <<>>

\* The number of rows written for the tables of S.
RECURSIVE RowsWrittenFor(_)
RowsWrittenFor(S) ==
    IF S = {} THEN 0
    ELSE LET t == CHOOSE x \in S : TRUE IN Len(Written(t)) + RowsWrittenFor(S \ {t})

\* C23: after a successful run, tables exported is the number of tables
\* processed, truncated ones included; tables truncated is the number of
\* tables with the truncate policy; rows exported is the sum over the tables
\* not truncated of the rows written in their INSERT statements.
C23_StatsAfterRun ==
    exportPc = "done" =>
        /\ stats.TablesExported = Len(sorted)
        /\ stats.TablesTruncated = Cardinality({t \in Range(sorted) : Truncated(t)})
        /\ stats.RowsExported = RowsWrittenFor({t \in Range(sorted) : ~Truncated(t)})

\* A run over three tables, one of them truncated, is over and wrote rows in
\* more than one INSERT.
C23_Witness ==
    /\ exportPc = "done"
    /\ Len(sorted) = 3
    /\ stats.TablesExported = 3 /\ stats.TablesTruncated = 1
    /\ stats.RowsExported >= 3
    /\ Cardinality(Inserts) >= 2

(***************************************************************************)
(* config: properties                                                      *)
(***************************************************************************)
\* The table has a foreign_key_integrity setting of its own.
HasTableSetting(t) ==
    /\ t \in DOMAIN config /\ config[t] # NilConfig
    /\ config[t].ForeignKeyIntegrity \in {Set(TRUE), Set(FALSE)}

\* C24: ShouldEnforceFKIntegrity(table) is the table's own setting whenever
\* the table has one, true or false; otherwise the global setting when that
\* is set; otherwise false.  The export filters a table on its foreign keys
\* only when it is true.
C24_TableSettingOverridesGlobal ==
    /\ \A t \in TableNames \cup {"logs", "misc"} :
          ShouldEnforceFKIntegrity(config, fkIntegrity, t) =
              (IF HasTableSetting(t) THEN config[t].ForeignKeyIntegrity = Set(TRUE)
               ELSE fkIntegrity = Set(TRUE))
    /\ \A i \in 1..Len(sorted) :
          (IF HasTableSetting(sorted[i]) THEN config[sorted[i]].ForeignKeyIntegrity = Set(FALSE)
           ELSE fkIntegrity # Set(TRUE))
              => EnforcedFks(i) = {}

\* With enforcement disabled globally and enabled for items, items was
\* filtered on its parent orders, which was truncated, and kept only the row
\* without a parent; users, which refers to orders too, was not filtered.
C24_Witness ==
    /\ exportPc = "done"
    /\ fkIntegrity = Set(FALSE)
    /\ HasTableSetting("items") /\ config["items"].ForeignKeyIntegrity = Set(TRUE)
    /\ ~HasTableSetting("orders")
    /\ ~HasTableSetting("users")
    /\ sorted = <<"orders", "users", "items">>
    /\ EnforcedFks(3) # {} /\ EnforcedFks(2) = {}
    /\ Truncated("orders")
    /\ Ids(Written("users")) = Ids(DbRows("users"))
    /\ Ids(Written("items")) = <<Int64(3)>>

\* The retain node was accepted: the RetainConfig it was loaded into.
Loaded == retainLoad.pc \in {"loaded", "saved", "reloaded", "reload failed"}

\* C25: CountLimit and DateThreshold are mutually exclusive.  No RetainConfig
\* that UnmarshalYAML or UnmarshalJSON fills from a fresh value, from a file
\* or from a saved configuration, is both count-based and date-based.
C25_CountAndDateExclusive ==
    /\ Loaded => ~(IsCountBased(retainLoad.r) /\ IsDateBased(retainLoad.r))
    /\ retainLoad.pc = "reloaded" =>
          ~(IsCountBased(retainLoad.reloaded) /\ IsDateBased(retainLoad.reloaded))

\* An object with a column and a date was loaded from YAML as date-based and
\* not count-based, saved and loaded again.
C25_Witness ==
    /\ retainLoad.pc = "reloaded" /\ retainLoad.format = "yaml"
    /\ retainLoad.node.kind = "object"
    /\ IsDateBased(retainLoad.r) /\ ~IsCountBased(retainLoad.r)
    /\ IsDateBased(retainLoad.reloaded) /\ ~IsCountBased(retainLoad.reloaded)

\* C29: every RetainConfig an unmarshal produces without error is exactly one
\* of the three variants: empty, count-based or date-based.
C29_ExactlyOneVariant ==
    Loaded =>
        Cardinality({v \in {"empty", "count", "date"} :
            \/ v = "empty" /\ IsEmpty(retainLoad.r)
            \/ v = "count" /\ IsCountBased(retainLoad.r)
            \/ v = "date" /\ IsDateBased(retainLoad.r)}) = 1

\* C30: a RetainConfig survives saving and loading: unmarshalling what
\* MarshalJSON or MarshalYAML gives for a loaded RetainConfig succeeds and
\* yields the same Count, ColumnName and AfterDate, time of day included.
C30_RoundTrip ==
    /\ retainLoad.pc # "reload failed"
    /\ retainLoad.pc = "reloaded" => retainLoad.reloaded = retainLoad.r

(***************************************************************************)
(* database: properties of StreamRows                                      *)
(***************************************************************************)
RECURSIVE Delivered(_)
Delivered(k) == IF k = 0 THEN <<>> ELSE Delivered(k - 1) \o stream.callbacks[k].rows

\* The rows the query of the call matches.
Matching == QueryRows(stream.table, stream.opts)

\* C26: with batch size b > 0 and r matching rows, the callback gets the rows
\* in row order, never an empty batch, b rows in every batch except possibly
\* the last, and when StreamRows returns without error it was called
\* ceil(r/b) times and got every row (not at all when r = 0).  A callback
\* that returns an error is the last one called, and StreamRows returns that
\* error.
C26_BatchesAndCallbackError ==
    stream.batchSize > 0 =>
        LET n == Len(stream.callbacks)
            b == stream.batchSize
            r == Len(Matching)
        IN  /\ Delivered(n) = SubSeq(Matching, 1, Len(Delivered(n)))
            /\ \A k \in 1..n : Len(stream.callbacks[k].rows) \in 1..b
            /\ \A k \in 1..(n - 1) :
                  Len(stream.callbacks[k].rows) = b /\ stream.callbacks[k].err = NoError
            /\ (stream.pc = "returned" /\ stream.err = NoError) =>
                  /\ n = (r + b - 1) \div b
                  /\ Delivered(n) = Matching
            /\ (n > 0 /\ stream.callbacks[n].err # NoError) =>
                  stream.pc = "returned" /\ stream.err = stream.callbacks[n].err
            /\ stream.err # NoError =>
                  n > 0 /\ stream.callbacks[n].err = stream.err

\* Three rows in batches of two: two callbacks,
\* the last with one row, and StreamRows returned without error.
C26_Witness ==
    /\ stream.pc = "returned" /\ stream.err = NoError
    /\ stream.batchSize = 2 /\ Len(Matching) = 3
    /\ Len(stream.callbacks) = 2
    /\ Len(stream.callbacks[1].rows) = 2 /\ Len(stream.callbacks[2].rows) = 1

(***************************************************************************)
(* fktracker: properties of the counts and of the integers                 *)
(***************************************************************************)
\* The distinct normalised values recorded for the table and column.
DistinctRecorded(table, column) == {normalizeValue(rec[3]) : rec \in RecordedFor(table, column)}

\* C27: after any sequence of RecordValue calls, GetExportedCount(t, c) is the
\* number of distinct normalised non-nil values recorded for (t, c) and
\* GetExportedValues(t, c) is exactly that set (none when it is empty); a
\* count never decreases, and recording a value already there leaves it as
\* it was.
C27_CountIsDistinctRecorded ==
    /\ [](\A t \in TrackerTables, c \in TrackerColumns :
            /\ GetExportedCount(t, c) = Cardinality(DistinctRecorded(t, c))
            /\ GetExportedValues(t, c) = DistinctRecorded(t, c))
    /\ [][\A t \in TrackerTables, c \in TrackerColumns :
            /\ GetExportedCount(t, c)' >= GetExportedCount(t, c)
            /\ (\A rec \in recorded' \ recorded :
                    rec[3] # Nil /\ HasValue(rec[1], rec[2], rec[3]))
                  => GetExportedCount(t, c)' = GetExportedCount(t, c)]_vars

\* C28: normalisation of integers is injective on the number.  Two integer
\* values of any integer types that hold different numbers never normalise to
\* the same value, so after one of them alone was recorded for a column,
\* HasValue is false for the other.
C28_IntegerNormalisationInjective ==
    \A rec \in recorded :
        (recorded = {rec} /\ rec[3] # Nil /\ rec[3].type \in IntTypes) =>
            \A w \in IntValues :
                ~SameInteger(rec[3], w) =>
                    /\ normalizeValue(w) # normalizeValue(rec[3])
                    /\ ~HasValue(rec[1], rec[2], w)

====
